---------------------------- MODULE Spec2Model ----------------------------
(***************************************************************************)
(* DMMCMD: the UART command interpreter of the DMMShield OLED demo         *)
(* (sdk/DMMShieldOLEDDemo/src/dmmcmd.c).  One poll cycle,                  *)
(* DMMCMD_CheckForCommand, reads at most one line, decodes and dispatches  *)
(* it, and then runs the repeated-mode step.  Strings are sequences of     *)
(* one-character strings, so that strtok and strcmp work on characters.    *)
(***************************************************************************)
EXTENDS Integers, Sequences, FiniteSets, TLC

-----------------------------------------------------------------------------
(* State. *)

VARIABLES
  fRepGetVal,       \* dmmcmd.c: repeated calibrated value flag
  fRepGetRaw,       \* dmmcmd.c: repeated raw value flag
  fRepBlock,        \* dmmcmd.c: block flag of the repeated step
  pszLastErr,       \* the last-error string of the ERRORS module
  dMeasuredVal,     \* dmmcmd.c: global measured value
  fUseCalib,        \* DMM module: calibration coefficients are applied
  idxCurrentScale,  \* DMM module: current scale index, -1 when none
  calibTable,       \* CALIB module: the USER coefficient table in memory
  calibMeas,        \* CALIB module: a measurement for calibration was taken
  eprom,            \* the persisted USER and FACTORY calibration records
  bCalibErrCode,    \* the value CALIB_Init returned to DMMCMD_Init
  bInitErrCode,     \* the value DMMCMD_Init returned
  uartCmd,          \* the line UART_GetString delivered in this cycle
  cchi,             \* its length, 0 when no line was received
  keyCmd,           \* the key DMMCMD_CmdDecode returned in this cycle
  bErrCode,         \* the value the dispatched handler returned
  bRepErrCode,      \* the value DMMCMD_ProcessRepeatedCmd returned
  uartOut,          \* the lines sent with UART_PutString in this cycle
  calls,            \* the collaborator calls made in this cycle
  halted            \* the processor took a data abort

vars == << fRepGetVal, fRepGetRaw, fRepBlock, pszLastErr, dMeasuredVal,
           fUseCalib, idxCurrentScale, calibTable, calibMeas, eprom,
           bCalibErrCode, bInitErrCode, uartCmd, cchi, keyCmd, bErrCode,
           bRepErrCode, uartOut, calls, halted >>

(* Bounds of the explored inputs. *)
MaxPad == 1
MaxTrim == 1
MaxReading == 1

(* cmd_key_t, dmmcmd.h *)
CMD_NONE == -1
INVALID == 0
CMD_Config == 1
CMD_CalibP == 2
CMD_CalibN == 3
CMD_CalibZ == 4
CMD_MeasureRep == 5
CMD_MeasureStop == 6
CMD_MeasureRaw == 7
CMD_MeasureAvg == 8
CMD_SaveEPROM == 9
CMD_VerifyEPROM == 10
CMD_ExportCalib == 11
CMD_ImportCalib == 12
CMD_MeasureForCalibP == 13
CMD_MeasureForCalibN == 14
CMD_FinalizeCalibP == 15
CMD_FinalizeCalibN == 16
CMD_RestoreFactCalibs == 17
CMD_ReadSerialNo == 18

(* The command table: name (as a sequence of characters) and key. *)
uartCommands ==
  << [pchCmd |-> <<"D","M","M","C","o","n","f","i","g">>, eCmd |-> CMD_Config],
     [pchCmd |-> <<"D","M","M","C","a","l","i","b","P">>, eCmd |-> CMD_CalibP],
     [pchCmd |-> <<"D","M","M","C","a","l","i","b","N">>, eCmd |-> CMD_CalibN],
     [pchCmd |-> <<"D","M","M","C","a","l","i","b","Z">>, eCmd |-> CMD_CalibZ],
     [pchCmd |-> <<"D","M","M","M","e","a","s","u","r","e","R","e","p">>, eCmd |-> CMD_MeasureRep],
     [pchCmd |-> <<"D","M","M","M","e","a","s","u","r","e","S","t","o","p">>, eCmd |-> CMD_MeasureStop],
     [pchCmd |-> <<"D","M","M","M","e","a","s","u","r","e","R","a","w">>, eCmd |-> CMD_MeasureRaw],
     [pchCmd |-> <<"D","M","M","M","e","a","s","u","r","e","A","v","g">>, eCmd |-> CMD_MeasureAvg],
     [pchCmd |-> <<"D","M","M","S","a","v","e","E","P","R","O","M">>, eCmd |-> CMD_SaveEPROM],
     [pchCmd |-> <<"D","M","M","V","e","r","i","f","y","E","P","R","O","M">>, eCmd |-> CMD_VerifyEPROM],
     [pchCmd |-> <<"D","M","M","E","x","p","o","r","t","C","a","l","i","b">>, eCmd |-> CMD_ExportCalib],
     [pchCmd |-> <<"D","M","M","I","m","p","o","r","t","C","a","l","i","b">>, eCmd |-> CMD_ImportCalib],
     [pchCmd |-> <<"D","M","M","M","e","a","s","u","r","e","F","o","r","C","a","l","i","b","P">>, eCmd |-> CMD_MeasureForCalibP],
     [pchCmd |-> <<"D","M","M","M","e","a","s","u","r","e","F","o","r","C","a","l","i","b","N">>, eCmd |-> CMD_MeasureForCalibN],
     [pchCmd |-> <<"D","M","M","F","i","n","a","l","i","z","e","C","a","l","i","b","P">>, eCmd |-> CMD_FinalizeCalibP],
     [pchCmd |-> <<"D","M","M","F","i","n","a","l","i","z","e","C","a","l","i","b","N">>, eCmd |-> CMD_FinalizeCalibN],
     [pchCmd |-> <<"D","M","M","R","e","s","t","o","r","e","F","a","c","t","C","a","l","i","b","s">>, eCmd |-> CMD_RestoreFactCalibs],
     [pchCmd |-> <<"D","M","M","R","e","a","d","S","e","r","i","a","l","N","o">>, eCmd |-> CMD_ReadSerialNo] >>

(* The scale catalogue; C index i is element i + 1. *)
rgScales ==
  << <<"R","e","s","i","s","t","a","n","c","e","5","0","M">>,
     <<"R","e","s","i","s","t","a","n","c","e","5","M">>,
     <<"R","e","s","i","s","t","a","n","c","e","5","0","0","k">>,
     <<"R","e","s","i","s","t","a","n","c","e","5","0","k">>,
     <<"R","e","s","i","s","t","a","n","c","e","5","k">>,
     <<"R","e","s","i","s","t","a","n","c","e","5","0","0">>,
     <<"R","e","s","i","s","t","a","n","c","e","5","0">>,
     <<"V","o","l","t","a","g","e","D","C","5","0">>,
     <<"V","o","l","t","a","g","e","D","C","5">>,
     <<"V","o","l","t","a","g","e","D","C","5","0","0","m">>,
     <<"V","o","l","t","a","g","e","D","C","5","0","m">>,
     <<"V","o","l","t","a","g","e","A","C","3","0">>,
     <<"V","o","l","t","a","g","e","A","C","5">>,
     <<"V","o","l","t","a","g","e","A","C","5","0","0","m">>,
     <<"V","o","l","t","a","g","e","A","C","5","0","m">>,
     <<"C","u","r","r","e","n","t","D","C","5">>,
     <<"C","u","r","r","e","n","t","A","C","5">>,
     <<"C","o","n","t","i","n","u","i","t","y">>,
     <<"D","i","o","d","e">>,
     <<"C","u","r","r","e","n","t","D","C","5","0","0","m">>,
     <<"C","u","r","r","e","n","t","D","C","5","0","m">>,
     <<"C","u","r","r","e","n","t","D","C","5","m">>,
     <<"C","u","r","r","e","n","t","D","C","5","0","0","u">>,
     <<"C","u","r","r","e","n","t","A","C","5","0","0","m">>,
     <<"C","u","r","r","e","n","t","A","C","5","0","m">>,
     <<"C","u","r","r","e","n","t","A","C","5","m">>,
     <<"C","u","r","r","e","n","t","A","C","5","0","0","u">> >>

szUnrecognized == <<"U","n","r","e","c","o","g","n","i","z","e","d"," ","c","o","m","m","a","n","d",":">>
szEmptyCommand == <<"E","m","p","t","y"," ","c","o","m","m","a","n","d">>
Upper == <<"A","B","C","D","E","F","G","H","I","J","K","L","M","N","O","P","Q","R","S","T","U","V","W","X","Y","Z">>
Lower == <<"a","b","c","d","e","f","g","h","i","j","k","l","m","n","o","p","q","r","s","t","u","v","w","x","y","z">>

(* Result codes, as listed in the function headers of dmmcmd.c. *)
ERRVAL_SUCCESS == 0
ERRVAL_EPROM_WRTIMEOUT == 255
ERRVAL_EPROM_CRC == 254
ERRVAL_EPROM_MAGICNO == 253
ERRVAL_DMM_IDXCONFIG == 252
ERRVAL_DMM_VALIDDATATIMEOUT == 250
ERRVAL_CMD_WRONGPARAMS == 249
ERRVAL_DMM_CFGVERIFY == 245
ERRVAL_CMD_VALWRONGUNIT == 244
ERRVAL_CMD_VALFORMAT == 242
ERRVAL_DMM_MEASUREDISPERSION == 241
ERRVAL_CALIB_MISSINGMEASUREMENT == 240
ERRVAL_DMM_GENERICERROR == 239

-----------------------------------------------------------------------------
(* C string helpers. *)

(* strcmp is only ever tested against 0: 0 when equal, non-zero otherwise. *)
strcmp(a, b) == IF a = b THEN 0 ELSE 1

RECURSIVE SkipDelims(_, _)
SkipDelims(s, delim) ==
  IF s = <<>> THEN <<>>
  ELSE IF Head(s) \in delim THEN SkipDelims(Tail(s), delim) ELSE s

RECURSIVE TokenLen(_, _)
TokenLen(s, delim) ==
  IF s = <<>> THEN 0
  ELSE IF Head(s) \in delim THEN 0 ELSE 1 + TokenLen(Tail(s), delim)

(* strtok on the text that starts at its cursor: skip leading delimiters;  *)
(* no character left, NULL (ok = FALSE); otherwise the token runs up to    *)
(* the next delimiter, which is overwritten, and the cursor moves past it. *)
strtok(s, delim) ==
  LET t == SkipDelims(s, delim)
      n == TokenLen(t, delim)
  IN IF t = <<>>
     THEN [ok |-> FALSE, tok |-> <<>>, rest |-> <<>>]
     ELSE [ok |-> TRUE, tok |-> SubSeq(t, 1, n),
           rest |-> IF n + 1 >= Len(t) THEN <<>> ELSE SubSeq(t, n + 2, Len(t))]

-----------------------------------------------------------------------------
(* DMMCMD_CmdDecode *)

(* The for loop over uartCommands: the index (1-based) of the first entry  *)
(* whose name equals the token, 0 when the loop runs off the table.        *)
RECURSIVE CmdSearch(_, _)
CmdSearch(szJustCmd, idxCmd) ==
  IF idxCmd > Len(uartCommands) THEN 0
  ELSE IF strcmp(szJustCmd, uartCommands[idxCmd].pchCmd) = 0 THEN idxCmd
  ELSE CmdSearch(szJustCmd, idxCmd + 1)

ToLower(c) ==
  IF \E i \in 1..Len(Upper) : Upper[i] = c
  THEN Lower[CHOOSE i \in 1..Len(Upper) : Upper[i] = c]
  ELSE c

ToggleCase(c) ==
  IF \E i \in 1..Len(Upper) : Upper[i] = c
  THEN Lower[CHOOSE i \in 1..Len(Upper) : Upper[i] = c]
  ELSE IF \E i \in 1..Len(Lower) : Lower[i] = c
  THEN Upper[CHOOSE i \in 1..Len(Lower) : Lower[i] = c]
  ELSE c

LowerStr(s) == [i \in 1..Len(s) |-> ToLower(s[i])]

(* Mutant: the table is searched ignoring letter case (strcasecmp). *)
RECURSIVE CmdSearchNoCase(_, _)
CmdSearchNoCase(szJustCmd, idxCmd) ==
  IF idxCmd > Len(uartCommands) THEN 0
  ELSE IF LowerStr(szJustCmd) = LowerStr(uartCommands[idxCmd].pchCmd) THEN idxCmd
  ELSE CmdSearchNoCase(szJustCmd, idxCmd + 1)

DMMCMD_CmdDecode_NoCase(szCmd) ==
  LET t == strtok(szCmd, {" "})
      idxCmd == CmdSearchNoCase(t.tok, 1)
  IN IF t.ok
     THEN IF idxCmd # 0
          THEN [key |-> uartCommands[idxCmd].eCmd, pszLastErr |-> <<>>, rest |-> t.rest]
          ELSE [key |-> INVALID, pszLastErr |-> szUnrecognized \o t.tok, rest |-> t.rest]
     ELSE [key |-> INVALID, pszLastErr |-> szEmptyCommand, rest |-> t.rest]

(* Mutant: the diagnostic of an unrecognized command omits the token. *)
DMMCMD_CmdDecode_NoToken(szCmd) ==
  LET t == strtok(szCmd, {" "})
      idxCmd == CmdSearch(t.tok, 1)
  IN IF t.ok
     THEN IF idxCmd # 0
          THEN [key |-> uartCommands[idxCmd].eCmd, pszLastErr |-> <<>>, rest |-> t.rest]
          ELSE [key |-> INVALID, pszLastErr |-> szUnrecognized, rest |-> t.rest]
     ELSE [key |-> INVALID, pszLastErr |-> szEmptyCommand, rest |-> t.rest]

(* Mutant: the last-error string is not emptied before the search. *)
DMMCMD_CmdDecode_NoClear(szCmd) ==
  LET t == strtok(szCmd, {" "})
      idxCmd == CmdSearch(t.tok, 1)
  IN IF t.ok
     THEN IF idxCmd # 0
          THEN [key |-> uartCommands[idxCmd].eCmd, pszLastErr |-> pszLastErr, rest |-> t.rest]
          ELSE [key |-> INVALID, pszLastErr |-> szUnrecognized \o t.tok, rest |-> t.rest]
     ELSE [key |-> INVALID, pszLastErr |-> szEmptyCommand, rest |-> t.rest]

(* The key of the line, the last-error string the call leaves (it is       *)
(* emptied first), and the text strtok's cursor is left at.                *)
DMMCMD_CmdDecode(szCmd) ==
  LET t == strtok(szCmd, {" "})
      idxCmd == CmdSearch(t.tok, 1)
  IN IF t.ok
     THEN IF idxCmd # 0
          THEN [key |-> uartCommands[idxCmd].eCmd, pszLastErr |-> <<>>, rest |-> t.rest]
          ELSE [key |-> INVALID, pszLastErr |-> szUnrecognized \o t.tok, rest |-> t.rest]
     ELSE [key |-> INVALID, pszLastErr |-> szEmptyCommand, rest |-> t.rest]

(* DMMCMD_CmdGetNextArg: strtok(NULL, ",") from the cursor. *)
DMMCMD_CmdGetNextArg(rest) == strtok(rest, {","})

-----------------------------------------------------------------------------
(* The collaborators. *)

(* Readings the measurement collaborator can deliver; NoReading stands for *)
(* the value DMM_DGetValue returns together with an error code.            *)
Readings == 0..MaxReading
NoReading == -1

(* A line handed to UART_PutString: the function that sent it, the prefix  *)
(* it starts with, the literal text, and the number and string formatted   *)
(* into it.                                                                *)
Line(by, prefix, code, text, num, str) ==
  [by |-> by, prefix |-> prefix, code |-> code, text |-> text, num |-> num, str |-> str]

(* A call of a collaborator function. *)
Call(by, fn, arg, err) == [by |-> by, fn |-> fn, arg |-> arg, err |-> err, val |-> -1]

(* ERRORS_GetPrefixedMessageString(bErrCode, pSzErrInfo, szMsg), with the  *)
(* prefixes main.c installs through ERRORS_Init("OK", "ERROR"): a success  *)
(* keeps the message under the success prefix; an error gives the          *)
(* code-specific message under the error prefix, which for the generic     *)
(* error is the text the caller left in szMsg.                             *)
ERRORS_GetPrefixedMessageString(by, code, szErrInfo, szMsg, num, str) ==
  IF code = ERRVAL_SUCCESS
  THEN Line(by, "OK", code, szMsg, num, str)
  ELSE Line(by, "ERROR", code,
            IF code = ERRVAL_DMM_GENERICERROR THEN szMsg ELSE "", 0, szErrInfo)

UART_PutString(s, line) == [s EXCEPT !.uartOut = Append(@, line)]

DMM_SetUseCalib(s, by, f) ==
  [s EXCEPT !.fUseCalib = f,
            !.calls = Append(@, Call(by, "DMM_SetUseCalib", f, ERRVAL_SUCCESS))]

(* DMM_DGetValue: arg records whether calibration was applied. *)
DMM_DGetValue(s, by, acq) ==
  [s EXCEPT !.calls = Append(@, Call(by, "DMM_DGetValue", s.fUseCalib, acq.err))]

(* DMMCMD_PmodOLEDDisplay: arg is the scale shown (-1: "No scale"), val    *)
(* the value shown (NoReading: the "No value" placeholder).                *)
DMMCMD_PmodOLEDDisplay(s, by, val) ==
  [s EXCEPT !.calls = Append(@, [Call(by, "DMMCMD_PmodOLEDDisplay", s.idxCurrentScale,
                                      ERRVAL_SUCCESS) EXCEPT !.val = val])]

AcqResults ==
  { [err |-> ERRVAL_SUCCESS, val |-> v] : v \in Readings }
  \cup { [err |-> e, val |-> NoReading] :
           e \in {ERRVAL_DMM_VALIDDATATIMEOUT, ERRVAL_DMM_IDXCONFIG} }

NoAcq == [err |-> ERRVAL_SUCCESS, val |-> NoReading]

(* What the collaborators answer during one dispatch. *)
R0 == [acq |-> NoAcq, err |-> ERRVAL_SUCCESS, err2 |-> ERRVAL_SUCCESS,
       ub |-> "none", n |-> 0, order |-> <<1, 2, 3>>, noisy |-> FALSE]

(* sscanf(arg, "%d", ...) and, for the integer-valued texts explored here, *)
(* sscanf(arg, "%f", ...): skip blanks, an optional sign, then digits.     *)
(* n is the return value: 1 converted, 0 matching failure, -1 (EOF) when   *)
(* the text ends before anything is converted.                             *)
Digits == <<"0", "1", "2", "3", "4", "5", "6", "7", "8", "9">>
IsDigit(c) == \E i \in 1..10 : Digits[i] = c
DigitVal(c) == (CHOOSE i \in 1..10 : Digits[i] = c) - 1

RECURSIVE ScanDigits(_, _)
ScanDigits(s, acc) ==
  IF s = <<>> \/ ~IsDigit(Head(s)) THEN acc
  ELSE ScanDigits(Tail(s), 10 * acc + DigitVal(Head(s)))

sscanf(arg) ==
  LET t == SkipDelims(arg, {" "})
      neg == t # <<>> /\ Head(t) = "-"
      u == IF t # <<>> /\ Head(t) \in {"-", "+"} THEN Tail(t) ELSE t
  IN IF u = <<>> THEN [n |-> -1, v |-> 0]
     ELSE IF ~IsDigit(Head(u)) THEN [n |-> 0, v |-> 0]
     ELSE [n |-> 1, v |-> IF neg THEN 0 - ScanDigits(u, 0) ELSE ScanDigits(u, 0)]

-----------------------------------------------------------------------------
(* The calibration module (CALIB) and the store behind it.  s.ret is the   *)
(* value the function returns.                                             *)

(* The text CALIB leaves in the last-error string when it reports the      *)
(* calibration coefficients it changed.                                    *)
szCoefficients == <<"c", "o", "e", "f", "f">>

ERRVAL_EPROM_VERIFY == 247

ScaleIndexes == 0..(Len(rgScales) - 1)

Coeff(mult, add) == [mult |-> mult, add |-> add]

(* The table in use when no stored calibration could be loaded. *)
DefaultCalib == [i \in ScaleIndexes |-> Coeff(1, 0)]

NoMeas == [P |-> FALSE, N |-> FALSE]

(* A calibration record is {magic number, checksum, coefficient table};    *)
(* the checksum is computed over the content of the table.                 *)
CalibMagic == "DMMS"

RECURSIVE TableSum(_, _)
TableSum(table, i) ==
  IF i < 0 THEN 0 ELSE table[i].mult + 2 * table[i].add + TableSum(table, i - 1)

Checksum(table) == TableSum(table, Len(rgScales) - 1) % 256

CalibRecord(table) == [magic |-> CalibMagic, crc |-> Checksum(table), table |-> table]

(* Reading a record: the magic number first, then the checksum. *)
CALIB_ReadAllCalibsFromEPROM(rec) ==
  IF rec.magic # CalibMagic THEN ERRVAL_EPROM_MAGICNO
  ELSE IF rec.crc # Checksum(rec.table) THEN ERRVAL_EPROM_CRC
  ELSE ERRVAL_SUCCESS

(* CALIB_Init: the USER record becomes the table in memory if it is        *)
(* usable; otherwise the table keeps its default.                          *)
CALIB_Init(ep) ==
  LET code == CALIB_ReadAllCalibsFromEPROM(ep.user)
  IN [calibTable |-> IF code = ERRVAL_SUCCESS THEN ep.user.table ELSE DefaultCalib,
      ret |-> code]

(* The coefficient pair a committed calibration computes from the          *)
(* reference value, the measured mean and the pair in use: an offset for   *)
(* zero, a slope for a polarity.                                           *)
CalibCoefficient(pol, dRefVal, dMeasured, old) ==
  CASE pol = "Z" -> [old EXCEPT !.add = dMeasured]
    [] pol = "P" -> [old EXCEPT !.mult = dRefVal + dMeasured]
    [] pol = "N" -> [old EXCEPT !.mult = dRefVal + dMeasured + 2]

(* CALIB_MeasureForCalibPositiveVal / NegativeVal: one reading; a good     *)
(* reading marks the polarity as measured.                                 *)
CALIB_MeasureForCalib(s, by, fn, pol, r) ==
  LET code == IF s.idxCurrentScale < 0 THEN ERRVAL_DMM_IDXCONFIG ELSE r.acq.err
  IN [s EXCEPT !.calibMeas[pol] = IF code = ERRVAL_SUCCESS THEN TRUE ELSE @,
               !.ret = code,
               !.calls = Append(@, Call(by, fn, 0, code))]

(* What the call record of a calibration keeps of the dispersion: 1 when   *)
(* the readings were taken and their dispersion was above the threshold,   *)
(* 0 when it was within, -1 when no readings were completed.               *)
Dispersion(code, r) ==
  IF code \notin {ERRVAL_SUCCESS, ERRVAL_DMM_MEASUREDISPERSION} THEN -1
  ELSE IF r.noisy THEN 1 ELSE 0

(* CALIB_CalibOnPositive / CALIB_CalibOnNegative(dRefVal, &dMeasuredVal,   *)
(* bEarlyMeasurement, &dispersion, 0).  A finalize (bEarlyMeasurement = 1) *)
(* needs the polarity measured; the readings give the mean r.acq.val and   *)
(* a dispersion that is above the threshold when r.noisy; an accepted      *)
(* finalize writes the pair of the current scale, reports it in the        *)
(* last-error string and ends the session.                                 *)
CALIB_CalibOn(s, by, fn, pol, dRefVal, bEarlyMeasurement, r) ==
  LET code == IF bEarlyMeasurement = 1 /\ ~s.calibMeas[pol] THEN ERRVAL_CALIB_MISSINGMEASUREMENT
              ELSE IF s.idxCurrentScale < 0 THEN ERRVAL_DMM_IDXCONFIG
              ELSE IF r.acq.err # ERRVAL_SUCCESS THEN r.acq.err
              ELSE IF r.noisy THEN ERRVAL_DMM_MEASUREDISPERSION
              ELSE ERRVAL_SUCCESS
      commit == code = ERRVAL_SUCCESS /\ bEarlyMeasurement = 1
  IN [s EXCEPT !.calibTable =
                  IF commit
                  THEN [@ EXCEPT ![s.idxCurrentScale] =
                                    CalibCoefficient(pol, dRefVal, r.acq.val, @)]
                  ELSE @,
               !.calibMeas = IF commit THEN NoMeas ELSE @,
               !.pszLastErr = IF commit THEN szCoefficients ELSE @,
               !.dMeasuredVal = IF code = ERRVAL_SUCCESS THEN r.acq.val ELSE @,
               !.ret = code,
               !.calls = Append(@, [Call(by, fn, bEarlyMeasurement, code)
                                      EXCEPT !.val = Dispersion(code, r)])]

(* CALIB_CalibOnZero(&dMeasuredVal, &dispersion, 0): an accepted zero      *)
(* calibration writes the offset of the current scale.                     *)
CALIB_CalibOnZero(s, by, r) ==
  LET code == IF s.idxCurrentScale < 0 THEN ERRVAL_DMM_IDXCONFIG
              ELSE IF r.acq.err # ERRVAL_SUCCESS THEN r.acq.err
              ELSE IF r.noisy THEN ERRVAL_DMM_MEASUREDISPERSION
              ELSE ERRVAL_SUCCESS
      commit == code = ERRVAL_SUCCESS
  IN [s EXCEPT !.calibTable =
                  IF commit
                  THEN [@ EXCEPT ![s.idxCurrentScale] =
                                    CalibCoefficient("Z", 0, r.acq.val, @)]
                  ELSE @,
               !.calibMeas = IF commit THEN NoMeas ELSE @,
               !.pszLastErr = IF commit THEN szCoefficients ELSE @,
               !.dMeasuredVal = IF commit THEN r.acq.val ELSE @,
               !.ret = code,
               !.calls = Append(@, [Call(by, "CALIB_CalibOnZero", 0, code)
                                      EXCEPT !.val = Dispersion(code, r)])]

(* CALIB_ImportCalibCoefficients refuses an index outside the catalogue    *)
(* and otherwise overwrites that entry of the table in memory.             *)
CALIB_ImportCalibCoefficients(s, by, idxCfg, mult, add) ==
  LET code == IF idxCfg >= 0 /\ idxCfg < Len(rgScales) THEN ERRVAL_SUCCESS
              ELSE ERRVAL_DMM_IDXCONFIG
  IN [s EXCEPT !.calibTable = IF code = ERRVAL_SUCCESS
                              THEN [@ EXCEPT ![idxCfg] = Coeff(mult, add)] ELSE @,
               !.ret = code,
               !.calls = Append(@, Call(by, "CALIB_ImportCalibCoefficients", idxCfg, code))]

(* The decimal text of an integer, as printf writes it. *)
RECURSIVE FormatNat(_)
FormatNat(n) ==
  IF n < 10 THEN << Digits[n + 1] >>
  ELSE FormatNat(n \div 10) \o << Digits[(n % 10) + 1] >>

FormatNum(n) == IF n < 0 THEN <<"-">> \o FormatNat(0 - n) ELSE FormatNat(n)

(* One line of the exported text: scale index, multiplicative and additive *)
(* coefficient.                                                            *)
ExportEntry(table, i) ==
  FormatNum(i) \o <<",">> \o FormatNum(table[i].mult) \o <<",">> \o FormatNum(table[i].add)

RECURSIVE ExportText(_, _)
ExportText(table, i) ==
  IF i >= Len(rgScales) THEN <<>>
  ELSE ExportEntry(table, i) \o <<"\n">> \o ExportText(table, i + 1)

(* CALIB_ExportCalibs_User(calExp): on success the buffer holds the text   *)
(* of the whole table; on an error (r.err) the buffer is not written and   *)
(* keeps what the stack held: nothing up to the first zero byte, or some   *)
(* bytes (r.ub).                                                           *)
CALIB_ExportCalibs_User(s, by, r) ==
  [s EXCEPT !.ret = r.err,
            !.calExp = IF r.err = ERRVAL_SUCCESS THEN ExportText(s.calibTable, 0)
                       ELSE IF r.ub = "empty" THEN <<>> ELSE <<"?">>,
            !.calls = Append(@, Call(by, "CALIB_ExportCalibs_User", 0, r.err))]

(* The entries of the table in memory that differ from the stored ones. *)
ChangedEntries(s) == { i \in ScaleIndexes : s.calibTable[i] # s.eprom.user.table[i] }

(* CALIB_WriteAllCalibsToEPROM_User: writes the entries that differ and    *)
(* returns their number, or the write timeout (r.err) of the store.        *)
CALIB_WriteAllCalibsToEPROM_User(s, by, r) ==
  LET code == IF r.err = ERRVAL_EPROM_WRTIMEOUT THEN ERRVAL_EPROM_WRTIMEOUT
              ELSE Cardinality(ChangedEntries(s))
  IN [s EXCEPT !.eprom.user = IF r.err = ERRVAL_EPROM_WRTIMEOUT THEN @
                              ELSE CalibRecord(s.calibTable),
               !.ret = code,
               !.calls = Append(@, Call(by, "CALIB_WriteAllCalibsToEPROM_User", 0, code))]

(* CALIB_VerifyEPROM: re-reads the USER record and compares it with the    *)
(* table in memory.                                                        *)
CALIB_VerifyEPROM(s, by) ==
  LET rd == CALIB_ReadAllCalibsFromEPROM(s.eprom.user)
      code == IF rd # ERRVAL_SUCCESS THEN rd
              ELSE IF s.eprom.user.table # s.calibTable THEN ERRVAL_EPROM_VERIFY
              ELSE ERRVAL_SUCCESS
  IN [s EXCEPT !.ret = code,
               !.calls = Append(@, Call(by, "CALIB_VerifyEPROM", 0, code))]

(* CALIB_RestoreAllCalibsFromEPROM_Factory: a usable FACTORY record        *)
(* replaces the table in memory and is written to the USER record.         *)
CALIB_RestoreAllCalibsFromEPROM_Factory(s, by, r) ==
  LET rd == CALIB_ReadAllCalibsFromEPROM(s.eprom.factory)
      code == IF rd # ERRVAL_SUCCESS THEN rd ELSE r.err
  IN [s EXCEPT !.calibTable = IF rd = ERRVAL_SUCCESS THEN s.eprom.factory.table ELSE @,
               !.eprom.user = IF code = ERRVAL_SUCCESS
                              THEN CalibRecord(s.eprom.factory.table) ELSE @,
               !.ret = code,
               !.calls = Append(@, Call(by, "CALIB_RestoreAllCalibsFromEPROM_Factory", 0, code))]

-----------------------------------------------------------------------------
(* Command handlers.  s is the state the handler works on, r the answers   *)
(* of the collaborators.                                                   *)

(* Mutant: the loop index is one too far when the name is found. *)
RECURSIVE ScaleSearch_OffByOne(_, _)
ScaleSearch_OffByOne(arg0, idxScale) ==
  IF idxScale > Len(rgScales) THEN 0
  ELSE IF strcmp(arg0, rgScales[idxScale]) = 0 THEN idxScale + 1
  ELSE ScaleSearch_OffByOne(arg0, idxScale + 1)

(* Mutant: a name that is not found selects the last scale. *)
RECURSIVE ScaleSearch_LastOnMiss(_, _)
ScaleSearch_LastOnMiss(arg0, idxScale) ==
  IF idxScale > Len(rgScales) THEN Len(rgScales)
  ELSE IF strcmp(arg0, rgScales[idxScale]) = 0 THEN idxScale
  ELSE ScaleSearch_LastOnMiss(arg0, idxScale + 1)

(* The for loop of DMMCMD_CmdConfig over rgScales: 1-based, 0 if no match. *)
RECURSIVE ScaleSearch(_, _)
ScaleSearch(arg0, idxScale) ==
  IF idxScale > Len(rgScales) THEN 0
  ELSE IF strcmp(arg0, rgScales[idxScale]) = 0 THEN idxScale
  ELSE ScaleSearch(arg0, idxScale + 1)

(* DMM_SetScale: a successful call makes idxScale the current scale; a     *)
(* failed call leaves the scale the collaborator reports in r.n.           *)
DMM_SetScale(s, by, idxScale, r) ==
  [s EXCEPT !.idxCurrentScale = IF r.err = ERRVAL_SUCCESS THEN idxScale
                                ELSE IF r.n = 1 THEN idxScale ELSE @,
            !.calibMeas = IF r.err = ERRVAL_SUCCESS \/ r.n = 1 THEN NoMeas ELSE @,
            !.calls = Append(@, Call(by, "DMM_SetScale", idxScale, r.err))]

(* Mutant: the display is refreshed whatever DMM_SetScale returned. *)
DMMCMD_CmdConfig_AlwaysDisplays(s, arg0, r) ==
  LET by == "DMMCMD_CmdConfig"
      idx == ScaleSearch(arg0.tok, 1)
  IN IF ~arg0.ok
     THEN IF r.ub = "abort"
          THEN [s EXCEPT !.halted = TRUE]
          ELSE [UART_PutString(s, Line(by, "FAIL", 0, "Missing valid configuration: ", 0, <<"?">>))
                  EXCEPT !.bErrCode = ERRVAL_SUCCESS]
     ELSE IF idx # 0
     THEN LET s1 == DMM_SetScale(s, by, idx - 1, r)
          IN IF r.err = ERRVAL_SUCCESS
             THEN [UART_PutString(DMMCMD_PmodOLEDDisplay(s1, by, NoReading),
                                  Line(by, "PASS", 0, "Selected scale index is: ", idx - 1, <<>>))
                     EXCEPT !.bErrCode = ERRVAL_SUCCESS]
             ELSE [UART_PutString(DMMCMD_PmodOLEDDisplay(s1, by, NoReading),
                                  ERRORS_GetPrefixedMessageString(by, r.err, <<>>, "", 0, <<>>))
                     EXCEPT !.bErrCode = r.err]
     ELSE [UART_PutString(s, Line(by, "FAIL", 0, "Missing valid configuration: ", 0, arg0.tok))
             EXCEPT !.bErrCode = ERRVAL_SUCCESS]

(* arg0 is strtok's result.  With arg0 NULL the strcmp reads through a     *)
(* null pointer: the read either faults (data abort, the processor stops   *)
(* in the abort handler) or yields bytes that match no scale name.         *)
DMMCMD_CmdConfig(s, arg0, r) ==
  LET by == "DMMCMD_CmdConfig"
      idx == ScaleSearch(arg0.tok, 1)
  IN IF ~arg0.ok
     THEN IF r.ub = "abort"
          THEN [s EXCEPT !.halted = TRUE]
          ELSE [UART_PutString(s, Line(by, "FAIL", 0, "Missing valid configuration: ", 0, <<"?">>))
                  EXCEPT !.bErrCode = ERRVAL_SUCCESS]
     ELSE IF idx # 0
     THEN LET s1 == DMM_SetScale(s, by, idx - 1, r)
          IN IF r.err = ERRVAL_SUCCESS
             THEN [UART_PutString(DMMCMD_PmodOLEDDisplay(s1, by, NoReading),
                                  Line(by, "PASS", 0, "Selected scale index is: ", idx - 1, <<>>))
                     EXCEPT !.bErrCode = ERRVAL_SUCCESS]
             ELSE [UART_PutString(s1, ERRORS_GetPrefixedMessageString(by, r.err, <<>>, "", 0, <<>>))
                     EXCEPT !.bErrCode = r.err]
     ELSE [UART_PutString(s, Line(by, "FAIL", 0, "Missing valid configuration: ", 0, arg0.tok))
             EXCEPT !.bErrCode = ERRVAL_SUCCESS]

(* Mutant: the message is sent without its prefix. *)
DMMCMD_CmdMeasureRep_NoPrefix(s) ==
  [UART_PutString(s, Line("DMMCMD_CmdMeasureRep", "", 0, "Measure repeated", 0, <<>>))
     EXCEPT !.fRepGetVal = 1, !.fRepGetRaw = 0, !.bErrCode = ERRVAL_SUCCESS]

DMMCMD_CmdMeasureRep(s) ==
  [UART_PutString(s, ERRORS_GetPrefixedMessageString("DMMCMD_CmdMeasureRep",
                        ERRVAL_SUCCESS, <<>>, "Measure repeated", 0, <<>>))
     EXCEPT !.fRepGetVal = 1, !.fRepGetRaw = 0, !.bErrCode = ERRVAL_SUCCESS]

(* Mutant: the stop command forgets the calibrated flag. *)
DMMCMD_CmdMeasureStop_KeepVal(s) ==
  [UART_PutString(s, ERRORS_GetPrefixedMessageString("DMMCMD_CmdMeasureStop",
                        ERRVAL_SUCCESS, <<>>, "Stop repeated", 0, <<>>))
     EXCEPT !.fRepGetRaw = 0, !.bErrCode = ERRVAL_SUCCESS]

DMMCMD_CmdMeasureStop(s) ==
  [UART_PutString(s, ERRORS_GetPrefixedMessageString("DMMCMD_CmdMeasureStop",
                        ERRVAL_SUCCESS, <<>>, "Stop repeated", 0, <<>>))
     EXCEPT !.fRepGetVal = 0, !.fRepGetRaw = 0, !.bErrCode = ERRVAL_SUCCESS]

(* Mutant: the raw command arms raw streaming and leaves the other flag. *)
DMMCMD_CmdMeasureRaw_Arm(s, r) ==
  LET by == "DMMCMD_CmdMeasureRaw"
      s1 == DMM_SetUseCalib(DMM_DGetValue(DMM_SetUseCalib(s, by, 0), by, r.acq), by, 1)
  IN [UART_PutString(s1,
        IF r.acq.err = ERRVAL_SUCCESS
        THEN Line(by, "", 0, "Raw Value: ", r.acq.val, <<>>)
        ELSE ERRORS_GetPrefixedMessageString(by, r.acq.err, <<>>, "", 0, <<>>))
        EXCEPT !.fRepGetRaw = 1, !.bErrCode = r.acq.err]

(* Mutant: calibration is switched back on only after a good reading. *)
DMMCMD_CmdMeasureRaw_NoRestore(s, r) ==
  LET by == "DMMCMD_CmdMeasureRaw"
      s0 == DMM_DGetValue(DMM_SetUseCalib(s, by, 0), by, r.acq)
      s1 == IF r.acq.err = ERRVAL_SUCCESS THEN DMM_SetUseCalib(s0, by, 1) ELSE s0
  IN [UART_PutString(s1,
        IF r.acq.err = ERRVAL_SUCCESS
        THEN Line(by, "", 0, "Raw Value: ", r.acq.val, <<>>)
        ELSE ERRORS_GetPrefixedMessageString(by, r.acq.err, <<>>, "", 0, <<>>))
        EXCEPT !.bErrCode = r.acq.err]

(* Mutant: the raw reading ends a repeated session. *)
DMMCMD_CmdMeasureRaw_Stops(s, r) ==
  LET by == "DMMCMD_CmdMeasureRaw"
      s1 == DMM_SetUseCalib(DMM_DGetValue(DMM_SetUseCalib(s, by, 0), by, r.acq), by, 1)
  IN [UART_PutString(s1,
        IF r.acq.err = ERRVAL_SUCCESS
        THEN Line(by, "", 0, "Raw Value: ", r.acq.val, <<>>)
        ELSE ERRORS_GetPrefixedMessageString(by, r.acq.err, <<>>, "", 0, <<>>))
        EXCEPT !.bErrCode = r.acq.err, !.fRepGetVal = 0, !.fRepGetRaw = 0]

(* dMeasuredVal and szVal are locals here: the globals are not written. *)
DMMCMD_CmdMeasureRaw(s, r) ==
  LET by == "DMMCMD_CmdMeasureRaw"
      s1 == DMM_SetUseCalib(DMM_DGetValue(DMM_SetUseCalib(s, by, 0), by, r.acq), by, 1)
  IN [UART_PutString(s1,
        IF r.acq.err = ERRVAL_SUCCESS
        THEN Line(by, "", 0, "Raw Value: ", r.acq.val, <<>>)
        ELSE ERRORS_GetPrefixedMessageString(by, r.acq.err, <<>>, "", 0, <<>>))
        EXCEPT !.bErrCode = r.acq.err]

(* Mutant: the averaged reading ends a repeated session. *)
DMMCMD_CmdMeasureAvg_Stops(s, r) ==
  LET by == "DMMCMD_CmdMeasureAvg"
      s1 == [s EXCEPT !.calls = Append(@, Call(by, "DMM_DGetAvgValue", s.fUseCalib, r.acq.err))]
  IN [UART_PutString(s1,
        IF r.acq.err = ERRVAL_SUCCESS
        THEN Line(by, "", 0, "Avg. Value: ", r.acq.val, <<>>)
        ELSE ERRORS_GetPrefixedMessageString(by, r.acq.err, <<>>, "", 0, <<>>))
        EXCEPT !.bErrCode = r.acq.err, !.fRepGetVal = 0, !.fRepGetRaw = 0]

DMMCMD_CmdMeasureAvg(s, r) ==
  LET by == "DMMCMD_CmdMeasureAvg"
      s1 == [s EXCEPT !.calls = Append(@, Call(by, "DMM_DGetAvgValue", s.fUseCalib, r.acq.err))]
  IN [UART_PutString(s1,
        IF r.acq.err = ERRVAL_SUCCESS
        THEN Line(by, "", 0, "Avg. Value: ", r.acq.val, <<>>)
        ELSE ERRORS_GetPrefixedMessageString(by, r.acq.err, <<>>, "", 0, <<>>))
        EXCEPT !.bErrCode = r.acq.err]

(* The common body of DMMCMD_CmdCalibP, DMMCMD_CmdCalibN,                  *)
(* DMMCMD_CmdFinalizeCalibP and DMMCMD_CmdFinalizeCalibN: interpret the    *)
(* reference value (r.err is what DMM_InterpretValue returns), run the     *)
(* calibration, compose and send the message.                              *)
CmdCalibOnRef(s, arg0, r, by, fn, bEarlyMeasurement, text) ==
  IF r.err = ERRVAL_SUCCESS
  THEN LET pol == IF fn = "CALIB_CalibOnPositive" THEN "P" ELSE "N"
           s1 == CALIB_CalibOn(s, by, fn, pol, sscanf(arg0.tok).v, bEarlyMeasurement, r)
       IN [UART_PutString(s1, ERRORS_GetPrefixedMessageString(by, s1.ret, <<>>, text,
                                  s1.dMeasuredVal, s1.pszLastErr))
             EXCEPT !.bErrCode = s1.ret]
  ELSE [UART_PutString(s, ERRORS_GetPrefixedMessageString(by, r.err, arg0.tok, "", 0, <<>>))
          EXCEPT !.bErrCode = r.err]

(* Mutant: the preview command commits like a finalize. *)
DMMCMD_CmdCalibP_Commits(s, arg0, r) ==
  CmdCalibOnRef(s, arg0, r, "DMMCMD_CmdCalibP", "CALIB_CalibOnPositive", 1,
                "Calibration on positive done.")

DMMCMD_CmdCalibP(s, arg0, r) ==
  CmdCalibOnRef(s, arg0, r, "DMMCMD_CmdCalibP", "CALIB_CalibOnPositive", 0,
                "Calibration on positive done.")

DMMCMD_CmdCalibN(s, arg0, r) ==
  CmdCalibOnRef(s, arg0, r, "DMMCMD_CmdCalibN", "CALIB_CalibOnNegative", 0,
                "Calibration on negative done.")

(* Mutant: the finalize command asks for a measurement taken now. *)
DMMCMD_CmdFinalizeCalibP_MeasureNow(s, arg0, r) ==
  CmdCalibOnRef(s, arg0, r, "DMMCMD_CmdFinalizeCalibP", "CALIB_CalibOnPositive", 0,
                "Calibration on positive done.")

DMMCMD_CmdFinalizeCalibP(s, arg0, r) ==
  CmdCalibOnRef(s, arg0, r, "DMMCMD_CmdFinalizeCalibP", "CALIB_CalibOnPositive", 1,
                "Calibration on positive done.")

DMMCMD_CmdFinalizeCalibN(s, arg0, r) ==
  CmdCalibOnRef(s, arg0, r, "DMMCMD_CmdFinalizeCalibN", "CALIB_CalibOnNegative", 1,
                "Calibration on negative done.")

(* Mutant: the message is composed as for a success whatever was returned. *)
DMMCMD_CmdCalibZ_IgnoresError(s, r) ==
  LET by == "DMMCMD_CmdCalibZ"
      s1 == CALIB_CalibOnZero(s, by, r)
  IN [UART_PutString(s1, ERRORS_GetPrefixedMessageString(by, ERRVAL_SUCCESS, <<>>,
                           "Calibration on zero done.", s1.dMeasuredVal, s1.pszLastErr))
        EXCEPT !.bErrCode = s1.ret]

DMMCMD_CmdCalibZ(s, r) ==
  LET by == "DMMCMD_CmdCalibZ"
      s1 == CALIB_CalibOnZero(s, by, r)
  IN [UART_PutString(s1, ERRORS_GetPrefixedMessageString(by, s1.ret, <<>>,
                           "Calibration on zero done.", s1.dMeasuredVal, s1.pszLastErr))
        EXCEPT !.bErrCode = s1.ret]

(* Mutant: every value of the error-code range is reported as an error. *)
SaveEPROMReport_ErrorRange(s1) ==
  LET by == "DMMCMD_CmdSaveEPROM"
      code == IF s1.ret < ERRVAL_DMM_GENERICERROR THEN ERRVAL_SUCCESS ELSE s1.ret
  IN [UART_PutString(s1, ERRORS_GetPrefixedMessageString(by, code, <<>>,
                           "calibrations written to EPROM", s1.ret, <<>>))
        EXCEPT !.bErrCode = code]

(* What DMMCMD_CmdSaveEPROM does with the value the save returned, s1.ret: *)
(* every value but the write timeout is printed as a count.                *)
SaveEPROMReport(s1) ==
  LET by == "DMMCMD_CmdSaveEPROM"
      code == IF s1.ret # ERRVAL_EPROM_WRTIMEOUT THEN ERRVAL_SUCCESS ELSE s1.ret
  IN [UART_PutString(s1, ERRORS_GetPrefixedMessageString(by, code, <<>>,
                           "calibrations written to EPROM", s1.ret, <<>>))
        EXCEPT !.bErrCode = code]

(* Mutant: the count message is composed whatever was returned. *)
DMMCMD_CmdSaveEPROM_AlwaysCount(s, r) ==
  LET by == "DMMCMD_CmdSaveEPROM"
      s1 == CALIB_WriteAllCalibsToEPROM_User(s, by, r)
  IN [UART_PutString(s1, ERRORS_GetPrefixedMessageString(by, ERRVAL_SUCCESS, <<>>,
                           "calibrations written to EPROM", s1.ret, <<>>))
        EXCEPT !.bErrCode = ERRVAL_SUCCESS]

DMMCMD_CmdSaveEPROM(s, r) ==
  SaveEPROMReport(CALIB_WriteAllCalibsToEPROM_User(s, "DMMCMD_CmdSaveEPROM", r))

DMMCMD_CmdVerifyEPROM(s, r) ==
  LET by == "DMMCMD_CmdVerifyEPROM"
      s1 == CALIB_VerifyEPROM(s, by)
      code == IF s1.ret = ERRVAL_EPROM_VERIFY THEN ERRVAL_DMM_GENERICERROR ELSE s1.ret
      text == IF s1.ret = ERRVAL_SUCCESS THEN "EPROM Calibration data is verified"
              ELSE IF s1.ret = ERRVAL_EPROM_VERIFY
              THEN "EPROM Calibration data mismatch values found" ELSE ""
  IN [UART_PutString(s1, ERRORS_GetPrefixedMessageString(by, code, <<>>, text, 0, <<>>))
        EXCEPT !.bErrCode = code]

(* The export buffer calExp is sent after the status line in every case. *)
DMMCMD_CmdExportCalib(s, r) ==
  LET by == "DMMCMD_CmdExportCalib"
      s1 == CALIB_ExportCalibs_User(s, by, r)
      s2 == UART_PutString(s1, ERRORS_GetPrefixedMessageString(by, s1.ret, <<>>,
                                 "Calibration data is exported", 0, <<>>))
  IN [UART_PutString(s2, Line(by, "", s1.ret, "calExp", 0, s1.calExp))
        EXCEPT !.bErrCode = s1.ret]

(* Mutant: an accepted import is written to the store at once. *)
DMMCMD_CmdImportCalib_Saves(s, arg0, arg1, arg2, r) ==
  LET by == "DMMCMD_CmdImportCalib"
      p0 == sscanf(arg0.tok)
      p1 == sscanf(arg1.tok)
      p2 == sscanf(arg2.tok)
      idxCfg == IF p0.n = 1 THEN p0.v ELSE r.n
      fMult == IF p1.n = 1 THEN p1.v ELSE r.n
      fAdd == IF p2.n = 1 THEN p2.v ELSE r.n
      code == IF ~arg0.ok \/ ~arg1.ok \/ ~arg2.ok THEN ERRVAL_CMD_WRONGPARAMS
              ELSE IF p0.n = 0 \/ p1.n = 0 \/ p2.n = 0 THEN ERRVAL_DMM_GENERICERROR
              ELSE ERRVAL_SUCCESS
      text == IF code # ERRVAL_DMM_GENERICERROR THEN ""
              ELSE IF p0.n = 0 THEN "Invalid value, provide an integer number for the first token, corresponding to scale index"
              ELSE IF p1.n = 0 THEN "Invalid value, provide a float number for the second token, corresponding to Mult. coefficient"
              ELSE "Invalid value, provide a float number for the third token, corresponding to Add. coefficient"
      s0 == IF code = ERRVAL_SUCCESS
            THEN CALIB_ImportCalibCoefficients(s, by, idxCfg, fMult, fAdd)
            ELSE [s EXCEPT !.ret = code]
      s1 == IF s0.ret = ERRVAL_SUCCESS
            THEN [CALIB_WriteAllCalibsToEPROM_User(s0, by, R0) EXCEPT !.ret = ERRVAL_SUCCESS]
            ELSE s0
  IN [UART_PutString(s1, ERRORS_GetPrefixedMessageString(by, s1.ret, <<>>, text, 0, <<>>))
        EXCEPT !.bErrCode = s1.ret]

(* A conversion that returns EOF leaves its variable uninitialized; the    *)
(* value then read is r.n.                                                 *)
DMMCMD_CmdImportCalib(s, arg0, arg1, arg2, r) ==
  LET by == "DMMCMD_CmdImportCalib"
      p0 == sscanf(arg0.tok)
      p1 == sscanf(arg1.tok)
      p2 == sscanf(arg2.tok)
      idxCfg == IF p0.n = 1 THEN p0.v ELSE r.n
      fMult == IF p1.n = 1 THEN p1.v ELSE r.n
      fAdd == IF p2.n = 1 THEN p2.v ELSE r.n
      code == IF ~arg0.ok \/ ~arg1.ok \/ ~arg2.ok THEN ERRVAL_CMD_WRONGPARAMS
              ELSE IF p0.n = 0 \/ p1.n = 0 \/ p2.n = 0 THEN ERRVAL_DMM_GENERICERROR
              ELSE ERRVAL_SUCCESS
      text == IF code # ERRVAL_DMM_GENERICERROR THEN ""
              ELSE IF p0.n = 0 THEN "Invalid value, provide an integer number for the first token, corresponding to scale index"
              ELSE IF p1.n = 0 THEN "Invalid value, provide a float number for the second token, corresponding to Mult. coefficient"
              ELSE "Invalid value, provide a float number for the third token, corresponding to Add. coefficient"
      s1 == IF code = ERRVAL_SUCCESS
            THEN CALIB_ImportCalibCoefficients(s, by, idxCfg, fMult, fAdd)
            ELSE [s EXCEPT !.ret = code]
  IN [UART_PutString(s1, ERRORS_GetPrefixedMessageString(by, s1.ret, <<>>, text, 0, <<>>))
        EXCEPT !.bErrCode = s1.ret]

CmdMeasureForCalib(s, r, by, fn, text) ==
  LET pol == IF fn = "CALIB_MeasureForCalibPositiveVal" THEN "P" ELSE "N"
      s1 == CALIB_MeasureForCalib(s, by, fn, pol, r)
  IN [UART_PutString(s1, ERRORS_GetPrefixedMessageString(by, s1.ret, <<>>, text, r.acq.val, <<>>))
        EXCEPT !.bErrCode = s1.ret]

DMMCMD_CmdMeasureForCalibP(s, r) ==
  CmdMeasureForCalib(s, r, "DMMCMD_CmdMeasureForCalibP", "CALIB_MeasureForCalibPositiveVal",
                     "Calibration positive measurement done. Measured Value: ")

DMMCMD_CmdMeasureForCalibN(s, r) ==
  CmdMeasureForCalib(s, r, "DMMCMD_CmdMeasureForCalibN", "CALIB_MeasureForCalibNegativeVal",
                     "Calibration negative measurement done. Measured Value: ")

(* Mutant: the restore command answers as for a success. *)
DMMCMD_CmdRestoreFactCalib_IgnoresError(s, r) ==
  LET by == "DMMCMD_CmdRestoreFactCalib"
      s1 == CALIB_RestoreAllCalibsFromEPROM_Factory(s, by, r)
  IN [UART_PutString(s1, ERRORS_GetPrefixedMessageString(by, ERRVAL_SUCCESS, <<>>,
                           "Calibration data restored from FACTORY EPROM", 0, <<>>))
        EXCEPT !.bErrCode = s1.ret]

DMMCMD_CmdRestoreFactCalib(s, r) ==
  LET by == "DMMCMD_CmdRestoreFactCalib"
      s1 == CALIB_RestoreAllCalibsFromEPROM_Factory(s, by, r)
  IN [UART_PutString(s1, ERRORS_GetPrefixedMessageString(by, s1.ret, <<>>,
                           "Calibration data restored from FACTORY EPROM", 0, <<>>))
        EXCEPT !.bErrCode = s1.ret]

DMMCMD_CmdReadSerialNo(s, r) ==
  LET by == "DMMCMD_CmdReadSerialNo"
      s1 == [s EXCEPT !.calls = Append(@, Call(by, "SERIALNO_ReadSerialNoFromEPROM", 0, r.err))]
  IN [UART_PutString(s1, ERRORS_GetPrefixedMessageString(by, r.err, <<>>, "SerialNo = ", 0, <<>>))
        EXCEPT !.bErrCode = r.err]

-----------------------------------------------------------------------------
(* Dispatch and the repeated-mode step. *)

(* What the first n calls of DMMCMD_CmdGetNextArg return on the text the   *)
(* cursor is at.                                                           *)
RECURSIVE NextArgSeq(_, _)
NextArgSeq(rest, n) ==
  IF n = 0 THEN <<>>
  ELSE << DMMCMD_CmdGetNextArg(rest) >> \o NextArgSeq(DMMCMD_CmdGetNextArg(rest).rest, n - 1)

NextArgs(rest, n) == { NextArgSeq(rest, n)[i] : i \in 1..n }

(* Mutant: the dispatch asks for one argument more than the handler takes. *)
GetArgs_OneMore(s, rest, n) ==
  [s EXCEPT !.calls = @ \o [i \in 1..(n + 1) |->
       [Call("DMMCMD_ProcessCmd", "DMMCMD_CmdGetNextArg", i, ERRVAL_SUCCESS)
          EXCEPT !.val = IF NextArgSeq(rest, n + 1)[i].ok THEN 1 ELSE 0]]]

(* The record of n calls of DMMCMD_CmdGetNextArg made by the dispatch: arg *)
(* is the turn of the call, val whether it returned a token (1) or NULL.   *)
GetArgs(s, rest, n) ==
  [s EXCEPT !.calls = @ \o [i \in 1..n |->
       [Call("DMMCMD_ProcessCmd", "DMMCMD_CmdGetNextArg", i, ERRVAL_SUCCESS)
          EXCEPT !.val = IF NextArgSeq(rest, n)[i].ok THEN 1 ELSE 0]]]

(* The orders in which the three DMMCMD_CmdGetNextArg calls of the         *)
(* DMMImportCalib dispatch can be evaluated: order[i] is the turn of the   *)
(* call that supplies argument i.                                          *)
ArgOrders == { p \in [1..3 -> 1..3] : \A i, j \in 1..3 : p[i] = p[j] => i = j }

DelayAprox10Us(s, n) ==
  [s EXCEPT !.calls = Append(@, Call("DMMCMD_ProcessCmd", "DelayAprox10Us", n, ERRVAL_SUCCESS))]

(* The switch of DMMCMD_ProcessCmd: the handler of the key, nothing for a  *)
(* key without a case.                                                     *)
ProcessCmdSwitch(key, s, rest, r) ==
  LET a1 == DMMCMD_CmdGetNextArg(rest)
      a2 == DMMCMD_CmdGetNextArg(a1.rest)
      a3 == DMMCMD_CmdGetNextArg(a2.rest)
      turn == << a1, a2, a3 >>
      s1 == GetArgs(s, rest, 1)
  IN CASE key = CMD_Config -> DMMCMD_CmdConfig(s1, a1, r)
       [] key = CMD_CalibP -> DMMCMD_CmdCalibP(s1, a1, r)
       [] key = CMD_CalibN -> DMMCMD_CmdCalibN(s1, a1, r)
       [] key = CMD_CalibZ -> DMMCMD_CmdCalibZ(s, r)
       [] key = CMD_MeasureRep -> DMMCMD_CmdMeasureRep(s)
       [] key = CMD_MeasureRaw -> DMMCMD_CmdMeasureRaw(s, r)
       [] key = CMD_MeasureStop -> DMMCMD_CmdMeasureStop(s)
       [] key = CMD_MeasureAvg -> DMMCMD_CmdMeasureAvg(s, r)
       [] key = CMD_SaveEPROM -> DMMCMD_CmdSaveEPROM(s, r)
       [] key = CMD_VerifyEPROM -> DMMCMD_CmdVerifyEPROM(s, r)
       [] key = CMD_ExportCalib -> DMMCMD_CmdExportCalib(s, r)
       [] key = CMD_ImportCalib ->
            DMMCMD_CmdImportCalib(GetArgs(s, rest, 3), turn[r.order[1]],
                                  turn[r.order[2]], turn[r.order[3]], r)
       [] key = CMD_MeasureForCalibP -> DMMCMD_CmdMeasureForCalibP(s, r)
       [] key = CMD_MeasureForCalibN -> DMMCMD_CmdMeasureForCalibN(s, r)
       [] key = CMD_FinalizeCalibP -> DMMCMD_CmdFinalizeCalibP(s1, a1, r)
       [] key = CMD_FinalizeCalibN -> DMMCMD_CmdFinalizeCalibN(s1, a1, r)
       [] key = CMD_RestoreFactCalibs -> DMMCMD_CmdRestoreFactCalib(s, r)
       [] key = CMD_ReadSerialNo -> DMMCMD_CmdReadSerialNo(s, r)
       [] OTHER -> s

(* Mutant: the default case returns before the delay. *)
DMMCMD_ProcessCmd_DefaultReturns(key, s, rest, r) ==
  LET h == ProcessCmdSwitch(key, s, rest, r)
  IN IF h.halted \/ key \in {INVALID, CMD_NONE} THEN h ELSE DelayAprox10Us(h, 1000)

DMMCMD_ProcessCmd(key, s, rest, r) ==
  LET h == ProcessCmdSwitch(key, s, rest, r)
  IN IF h.halted THEN h ELSE DelayAprox10Us(h, 1000)

(* Mutant: an acquisition error ends the repeated session. *)
DMMCMD_ProcessRepeatedCmd_StopOnError(s, block, acq) ==
  LET by == "DMMCMD_ProcessRepeatedCmd"
  IN IF (s.fRepGetVal # 0 \/ s.fRepGetRaw # 0) /\ block = 0
     THEN LET s1 == IF s.fRepGetRaw # 0 THEN DMM_SetUseCalib(s, by, 0) ELSE s
              s2 == [DMM_SetUseCalib(DMM_DGetValue(s1, by, acq), by, 1)
                       EXCEPT !.dMeasuredVal = acq.val]
          IN IF acq.err = ERRVAL_SUCCESS
             THEN IF s.fRepGetVal # 0
                  THEN [UART_PutString(DMMCMD_PmodOLEDDisplay(s2, by, acq.val),
                                       Line(by, "", 0, "Value: ", acq.val, <<>>))
                          EXCEPT !.bRepErrCode = ERRVAL_SUCCESS]
                  ELSE [UART_PutString(s2, Line(by, "", 0, "Raw Value: ", acq.val, <<>>))
                          EXCEPT !.bRepErrCode = ERRVAL_SUCCESS]
             ELSE [UART_PutString(s2, ERRORS_GetPrefixedMessageString(by, acq.err, <<>>, "", 0, <<>>))
                     EXCEPT !.bRepErrCode = acq.err, !.fRepGetVal = 0, !.fRepGetRaw = 0]
     ELSE [s EXCEPT !.bRepErrCode = ERRVAL_SUCCESS]

(* block is fRepBlock, acq what DMM_DGetValue answers if it is called. *)
DMMCMD_ProcessRepeatedCmd(s, block, acq) ==
  LET by == "DMMCMD_ProcessRepeatedCmd"
  IN IF (s.fRepGetVal # 0 \/ s.fRepGetRaw # 0) /\ block = 0
     THEN LET s1 == IF s.fRepGetRaw # 0 THEN DMM_SetUseCalib(s, by, 0) ELSE s
              s2 == [DMM_SetUseCalib(DMM_DGetValue(s1, by, acq), by, 1)
                       EXCEPT !.dMeasuredVal = acq.val]
          IN IF acq.err = ERRVAL_SUCCESS
             THEN IF s.fRepGetVal # 0
                  THEN [UART_PutString(DMMCMD_PmodOLEDDisplay(s2, by, acq.val),
                                       Line(by, "", 0, "Value: ", acq.val, <<>>))
                          EXCEPT !.bRepErrCode = ERRVAL_SUCCESS]
                  ELSE [UART_PutString(s2, Line(by, "", 0, "Raw Value: ", acq.val, <<>>))
                          EXCEPT !.bRepErrCode = ERRVAL_SUCCESS]
             ELSE [UART_PutString(s2, ERRORS_GetPrefixedMessageString(by, acq.err, <<>>, "", 0, <<>>))
                     EXCEPT !.bRepErrCode = acq.err]
     ELSE [s EXCEPT !.bRepErrCode = ERRVAL_SUCCESS]

-----------------------------------------------------------------------------
(* The answers the collaborators can give during the dispatch of key. *)

(* What a calibration can meet: a failed acquisition, or readings with    *)
(* their mean and a dispersion within or above the threshold.              *)
CalibResults ==
  { [R0 EXCEPT !.acq = [err |-> ERRVAL_SUCCESS, val |-> v], !.noisy = z] :
      v \in Readings, z \in BOOLEAN }
  \cup { [R0 EXCEPT !.acq = a] : a \in AcqResults \ { x \in AcqResults : x.err = ERRVAL_SUCCESS } }

(* DMM_InterpretValue accepts a number, if its unit fits the scale. *)
CalibOnRefResults(a1) ==
  IF a1.ok /\ sscanf(a1.tok).n = 1
  THEN CalibResults \cup { [R0 EXCEPT !.err = ERRVAL_CMD_VALWRONGUNIT] }
  ELSE { [R0 EXCEPT !.err = ERRVAL_CMD_VALFORMAT] }

AcqOnly == { [R0 EXCEPT !.acq = a] : a \in AcqResults }

CmdResults(key, rest) ==
  LET a1 == DMMCMD_CmdGetNextArg(rest)
  IN CASE key = CMD_Config ->
            IF ~a1.ok THEN { [R0 EXCEPT !.ub = u] : u \in {"abort", "nomatch"} }
            ELSE IF ScaleSearch(a1.tok, 1) = 0 THEN {R0}
            ELSE {R0} \cup { [R0 EXCEPT !.err = e, !.n = n] :
                               e \in {ERRVAL_DMM_IDXCONFIG, ERRVAL_DMM_CFGVERIFY}, n \in {0, 1} }
       [] key \in {CMD_CalibP, CMD_CalibN, CMD_FinalizeCalibP, CMD_FinalizeCalibN} ->
            CalibOnRefResults(a1)
       [] key = CMD_CalibZ -> CalibResults
       [] key \in {CMD_MeasureRaw, CMD_MeasureAvg, CMD_MeasureForCalibP, CMD_MeasureForCalibN} ->
            AcqOnly
       [] key = CMD_SaveEPROM ->
            { [R0 EXCEPT !.err = e] : e \in {ERRVAL_SUCCESS, ERRVAL_EPROM_WRTIMEOUT} }
       [] key = CMD_ExportCalib ->
            {R0} \cup { [R0 EXCEPT !.err = e, !.ub = u] :
                          e \in {ERRVAL_EPROM_MAGICNO, ERRVAL_EPROM_CRC},
                          u \in {"empty", "bytes"} }
       [] key = CMD_ImportCalib ->
            { [R0 EXCEPT !.order = p, !.n = n] :
                p \in ArgOrders,
                n \in IF \E a \in NextArgs(rest, 3) : a.ok /\ sscanf(a.tok).n = -1
                      THEN {0, Len(rgScales)} ELSE {0} }
       [] key = CMD_RestoreFactCalibs ->
            { [R0 EXCEPT !.err = e] : e \in {ERRVAL_SUCCESS, ERRVAL_EPROM_WRTIMEOUT} }
       [] key = CMD_ReadSerialNo ->
            { [R0 EXCEPT !.err = e] :
                e \in {ERRVAL_SUCCESS, ERRVAL_EPROM_CRC, ERRVAL_EPROM_MAGICNO} }
       [] OTHER -> {R0}

RepResults(s, block) ==
  IF (s.fRepGetVal # 0 \/ s.fRepGetRaw # 0) /\ block = 0 THEN AcqResults ELSE {NoAcq}

-----------------------------------------------------------------------------
(* The lines the transport delivers. *)

RECURSIVE Pad(_)
Pad(k) == IF k = 0 THEN <<>> ELSE <<" ">> \o Pad(k - 1)

CmdNames == { uartCommands[i].pchCmd : i \in 1..Len(uartCommands) }

CmdName(key) == uartCommands[CHOOSE i \in 1..Len(uartCommands) : uartCommands[i].eCmd = key].pchCmd

szBogusScale == <<"B", "o", "g", "u", "s", "S", "c", "a", "l", "e">>

(* Argument texts: a name that is no scale, a scale name after a second    *)
(* blank, reference values, and import triples.                            *)
ConfigArgs == { szBogusScale, <<" ">> \o rgScales[9] }
RefArgs == { <<"5">>, <<"x">> }
ImportArgs == { <<"2", "7", ",", "1", ",", "1">>,
                <<"1", ",", "2">>, <<"x", ",", "1", ",", "1">> }

ArgLines ==
  { CmdName(CMD_Config) \o <<" ">> \o a : a \in ConfigArgs }
  \cup { CmdName(k) \o <<" ">> \o a :
           k \in {CMD_CalibP, CMD_FinalizeCalibN}, a \in RefArgs }
  \cup { CmdName(CMD_ImportCalib) \o <<" ">> \o a : a \in ImportArgs }

(* Tokens that are no command name: a name with the case of one letter     *)
(* changed, shortened or extended by up to MaxTrim characters at either    *)
(* end.                                                                    *)
ToggleAt(s, i) == [s EXCEPT ![i] = ToggleCase(s[i])]

RECURSIVE Extra(_)
Extra(k) == IF k = 0 THEN <<>> ELSE <<"p">> \o Extra(k - 1)

Variants(name) ==
  { ToggleAt(name, i) : i \in 1..Len(name) }
  \cup { SubSeq(name, 1, Len(name) - k) : k \in 1..MaxTrim }
  \cup { SubSeq(name, 1 + k, Len(name)) : k \in 1..MaxTrim }
  \cup { name \o Extra(k) : k \in 1..MaxTrim }
  \cup { Extra(k) \o name : k \in 1..MaxTrim }

BlankLines == { Pad(k) : k \in 1..(MaxPad + 1) }

(* What follows the first token on a line. *)
Tails == { <<>>, <<" ">>, <<" ">> \o rgScales[9], <<",">> \o rgScales[9] }

DecodeLines ==
  { Pad(k) \o t \o tail :
      k \in 0..MaxPad, t \in CmdNames \cup UNION { Variants(n) : n \in CmdNames },
      tail \in Tails }
  \cup BlankLines

PollLines ==
  CmdNames
  \cup { Pad(k) \o CmdName(key) : k \in 1..MaxPad, key \in {CMD_MeasureRep, CMD_MeasureStop} }
  \cup ArgLines
  \cup { LowerStr(CmdName(CMD_MeasureRep)), CmdName(CMD_MeasureStop) \o Extra(1) }
  \cup BlankLines

(* The lines of a calibration session on the scale VoltageDC5. *)
CalibLines ==
  { CmdName(CMD_Config) \o <<" ">> \o a : a \in {rgScales[9], szBogusScale} }
  \cup { CmdName(k) : k \in {CMD_MeasureForCalibP, CMD_MeasureForCalibN, CMD_CalibZ} }
  \cup { CmdName(k) \o <<" ", "5">> :
           k \in {CMD_CalibP, CMD_CalibN, CMD_FinalizeCalibP, CMD_FinalizeCalibN} }
  \cup { CmdName(CMD_FinalizeCalibP) \o <<" ", "x">>,
          LowerStr(CmdName(CMD_CalibZ)), Pad(1) }

(* The lines that work on the stored calibration. *)
StoreLines ==
  { CmdName(k) : k \in {CMD_SaveEPROM, CMD_VerifyEPROM, CMD_RestoreFactCalibs,
                         CMD_ExportCalib} }
  \cup { CmdName(CMD_ImportCalib) \o <<" ">> \o a :
           a \in { <<"1", ",", "1", ",", "1">>, <<"2", ",", "2", ",", "2">>,
                   <<"2", "7", ",", "2", "7", ",", "2", "7">> } }
  \cup { CmdName(CMD_SaveEPROM) \o Extra(1) }

-----------------------------------------------------------------------------
(* DMMCMD_Init.  CALIB_Init loads the USER record; its result is           *)
(* overwritten by the result of UART_Init, which is what is returned.      *)
DMMCMD_Init(ep, bUartErr) ==
  LET c == CALIB_Init(ep)
  IN [calibTable |-> c.calibTable, bCalibErrCode |-> c.ret, ret |-> bUartErr]

(* The state after DMMCMD_Init: the flags as initialized, an empty         *)
(* last-error string, calibration in use, no scale selected.               *)
InitWith(ep, bUartErr) ==
  /\ calibTable = DMMCMD_Init(ep, bUartErr).calibTable
  /\ calibMeas = NoMeas
  /\ eprom = ep
  /\ bCalibErrCode = DMMCMD_Init(ep, bUartErr).bCalibErrCode
  /\ bInitErrCode = DMMCMD_Init(ep, bUartErr).ret
  /\ fRepGetVal = 0
  /\ fRepGetRaw = 0
  /\ fRepBlock = 0
  /\ pszLastErr = <<>>
  /\ dMeasuredVal = 0
  /\ fUseCalib = 1
  /\ idxCurrentScale = -1
  /\ uartCmd = <<>>
  /\ cchi = 0
  /\ keyCmd = CMD_NONE
  /\ bErrCode = ERRVAL_SUCCESS
  /\ bRepErrCode = ERRVAL_SUCCESS
  /\ uartOut = <<>>
  /\ calls = <<>>
  /\ halted = FALSE

(* A board whose two records hold the default table. *)
FactoryFresh == [user |-> CalibRecord(DefaultCalib), factory |-> CalibRecord(DefaultCalib)]

Init == InitWith(FactoryFresh, ERRVAL_SUCCESS)

(* The state a cycle starts from: the per-cycle records are empty. *)
CycleStart ==
  [fRepGetVal |-> fRepGetVal, fRepGetRaw |-> fRepGetRaw, pszLastErr |-> pszLastErr,
   dMeasuredVal |-> dMeasuredVal, fUseCalib |-> fUseCalib,
   idxCurrentScale |-> idxCurrentScale, calibTable |-> calibTable,
   calibMeas |-> calibMeas, eprom |-> eprom, ret |-> ERRVAL_SUCCESS,
   calExp |-> <<>>,
   bErrCode |-> ERRVAL_SUCCESS,
   bRepErrCode |-> ERRVAL_SUCCESS, uartOut |-> <<>>, calls |-> <<>>, halted |-> FALSE]

Commit(s) ==
  /\ fRepGetVal' = s.fRepGetVal
  /\ fRepGetRaw' = s.fRepGetRaw
  /\ pszLastErr' = s.pszLastErr
  /\ dMeasuredVal' = s.dMeasuredVal
  /\ fUseCalib' = s.fUseCalib
  /\ idxCurrentScale' = s.idxCurrentScale
  /\ calibTable' = s.calibTable
  /\ calibMeas' = s.calibMeas
  /\ eprom' = s.eprom
  /\ UNCHANGED << bCalibErrCode, bInitErrCode >>
  /\ bErrCode' = s.bErrCode
  /\ bRepErrCode' = s.bRepErrCode
  /\ uartOut' = s.uartOut
  /\ calls' = s.calls
  /\ halted' = s.halted

(* Mutant: without a line the cycle returns before the repeated step. *)
CheckForCommand_NoLine_Idle ==
  /\ ~halted
  /\ uartCmd' = <<>>
  /\ cchi' = 0
  /\ keyCmd' = CMD_NONE
  /\ UNCHANGED fRepBlock
  /\ Commit(CycleStart)

(* DMMCMD_CheckForCommand when UART_GetString delivers no line. *)
CheckForCommand_NoLine ==
  /\ ~halted
  /\ uartCmd' = <<>>
  /\ cchi' = 0
  /\ keyCmd' = CMD_NONE
  /\ UNCHANGED fRepBlock
  /\ \E acq \in RepResults(CycleStart, fRepBlock) :
       \E s2 \in {DMMCMD_ProcessRepeatedCmd(CycleStart, fRepBlock, acq)} : Commit(s2)

(* Mutant: a processed line blocks the repeated-mode step. *)
CheckForCommand_Lines_Blocks(lines) ==
  /\ ~halted
  /\ \E line \in lines :
       \E d \in {DMMCMD_CmdDecode(line)} :
         /\ uartCmd' = line
         /\ cchi' = Len(line)
         /\ keyCmd' = d.key
         /\ \E r \in CmdResults(d.key, d.rest) :
              \E s0 \in {[UART_PutString(CycleStart,
                            Line("DMMCMD_CheckForCommand", "", 0, "Received command: ", 0, line))
                            EXCEPT !.pszLastErr = d.pszLastErr]} :
                \E s1 \in {DMMCMD_ProcessCmd(d.key, s0, d.rest, r)} :
                  IF s1.halted
                  THEN /\ UNCHANGED fRepBlock
                       /\ Commit(s1)
                  ELSE /\ fRepBlock' = 1
                       /\ \E acq \in RepResults(s1, 1) :
                            \E s2 \in {DMMCMD_ProcessRepeatedCmd(s1, 1, acq)} : Commit(s2)

(* DMMCMD_CheckForCommand when UART_GetString delivers a line: the echo,   *)
(* decode and dispatch, fRepBlock = 0, then the repeated-mode step.  A     *)
(* data abort inside the handler ends the cycle there.                     *)
CheckForCommand_Lines(lines) ==
  /\ ~halted
  /\ \E line \in lines :
       \E d \in {DMMCMD_CmdDecode(line)} :
         /\ uartCmd' = line
         /\ cchi' = Len(line)
         /\ keyCmd' = d.key
         /\ \E r \in CmdResults(d.key, d.rest) :
              \E s0 \in {[UART_PutString(CycleStart,
                            Line("DMMCMD_CheckForCommand", "", 0, "Received command: ", 0, line))
                            EXCEPT !.pszLastErr = d.pszLastErr]} :
                \E s1 \in {DMMCMD_ProcessCmd(d.key, s0, d.rest, r)} :
                  IF s1.halted
                  THEN /\ UNCHANGED fRepBlock
                       /\ Commit(s1)
                  ELSE /\ fRepBlock' = 0
                       /\ \E acq \in RepResults(s1, 0) :
                            \E s2 \in {DMMCMD_ProcessRepeatedCmd(s1, 0, acq)} : Commit(s2)

CheckForCommand_Line == CheckForCommand_Lines(PollLines)

Next == CheckForCommand_NoLine \/ CheckForCommand_Line

Spec == Init /\ [][Next]_vars

-----------------------------------------------------------------------------
(* A calibration session. *)
CheckForCommand_CalibLine == CheckForCommand_Lines(CalibLines)

NextCalib == CheckForCommand_NoLine \/ CheckForCommand_CalibLine

SpecCalib == Init /\ [][NextCalib]_vars

-----------------------------------------------------------------------------
(* Work on the stored calibration, from every content of the two records:  *)
(* usable with the default or another table, a wrong magic number (an      *)
(* erased store), a wrong checksum.                                        *)
OtherCalib == [DefaultCalib EXCEPT ![1] = Coeff(2, 3)]

StoredRecords ==
  { CalibRecord(DefaultCalib), CalibRecord(OtherCalib),
    [CalibRecord(OtherCalib) EXCEPT !.magic = "blank"],
    [CalibRecord(OtherCalib) EXCEPT !.crc = (@ + 1) % 256] }

UartInitResults == {ERRVAL_SUCCESS, ERRVAL_DMM_GENERICERROR}

InitStore ==
  \E u \in StoredRecords, f \in StoredRecords \ {CalibRecord(DefaultCalib)},
     e \in UartInitResults :
    InitWith([user |-> u, factory |-> f], e)

CheckForCommand_StoreLine == CheckForCommand_Lines(StoreLines)

NextStore == CheckForCommand_NoLine \/ CheckForCommand_StoreLine

SpecStore == InitStore /\ [][NextStore]_vars

-----------------------------------------------------------------------------
(* Streaming on a selected scale: scale selection with a catalogue name,   *)
(* an unknown name and no name, the measurement commands, commands that    *)
(* leave the coefficients of a fresh board as they are, a line that is no  *)
(* command and a blank line.                                               *)
StreamLines ==
  { CmdName(CMD_Config) \o <<" ">> \o a : a \in {rgScales[9], szBogusScale} }
  \cup { CmdName(k) : k \in {CMD_Config, CMD_MeasureRep, CMD_MeasureStop, CMD_MeasureRaw,
                               CMD_MeasureAvg, CMD_MeasureForCalibP, CMD_SaveEPROM,
                               CMD_VerifyEPROM, CMD_ExportCalib, CMD_ImportCalib,
                               CMD_RestoreFactCalibs, CMD_ReadSerialNo} }
  \cup { CmdName(CMD_CalibP) \o <<" ", "5">>, LowerStr(CmdName(CMD_MeasureRep)), Pad(1) }

CheckForCommand_StreamLine == CheckForCommand_Lines(StreamLines)

NextStream == CheckForCommand_NoLine \/ CheckForCommand_StreamLine

SpecStream == Init /\ [][NextStream]_vars

-----------------------------------------------------------------------------
(* Import and export of coefficients: the exported line of entry 0 of the  *)
(* default table, an index outside the catalogue, a blank argument, an     *)
(* argument that is no number, and two arguments only.                     *)
ImportLines ==
  { CmdName(k) : k \in {CMD_ExportCalib, CMD_SaveEPROM} }
  \cup { CmdName(CMD_ImportCalib) \o <<" ">> \o a :
           a \in { ExportEntry(DefaultCalib, 0),
                   <<"2", "7", ",", "1", ",", "1">>,
                   <<"1", ",", " ", ",", "1">>,
                   <<"x", ",", "1", ",", "1">>,
                   <<"1", ",", "2">> } }

CheckForCommand_ImportLine == CheckForCommand_Lines(ImportLines)

NextImport == CheckForCommand_NoLine \/ CheckForCommand_ImportLine

SpecImport == Init /\ [][NextImport]_vars

-----------------------------------------------------------------------------
(* DMMSaveEPROM as a function of what the save returns: the return type of *)
(* CALIB_WriteAllCalibsToEPROM_User is a byte, and the handler is checked  *)
(* for every value of it.                                                  *)
SaveReturns == 0..(2^8 - 1)

(* DMMCMD_CheckForCommand for the line DMMSaveEPROM when the save returns  *)
(* v.                                                                      *)
CheckForCommand_SaveReturns ==
  /\ ~halted
  /\ \E v \in SaveReturns :
       \E d \in {DMMCMD_CmdDecode(CmdName(CMD_SaveEPROM))} :
         /\ uartCmd' = CmdName(CMD_SaveEPROM)
         /\ cchi' = Len(CmdName(CMD_SaveEPROM))
         /\ keyCmd' = d.key
         /\ fRepBlock' = 0
         /\ \E s0 \in {[UART_PutString(CycleStart,
                           Line("DMMCMD_CheckForCommand", "", 0, "Received command: ", 0,
                                CmdName(CMD_SaveEPROM)))
                           EXCEPT !.pszLastErr = d.pszLastErr,
                                  !.ret = v,
                                  !.calls = Append(@, Call("DMMCMD_CmdSaveEPROM",
                                               "CALIB_WriteAllCalibsToEPROM_User", 0, v))]} :
              \E s1 \in {DelayAprox10Us(SaveEPROMReport(s0), 1000)} :
                \E acq \in RepResults(s1, 0) :
                  \E s2 \in {DMMCMD_ProcessRepeatedCmd(s1, 0, acq)} : Commit(s2)

NextSave == CheckForCommand_NoLine \/ CheckForCommand_SaveReturns

SpecSave == Init /\ [][NextSave]_vars

-----------------------------------------------------------------------------
(* DMMCMD_CmdDecode on its own: a received line, not yet decoded, and      *)
(* whatever an earlier command left in the last-error string.              *)
InitDecode ==
  /\ fRepGetVal = 0
  /\ fRepGetRaw = 0
  /\ fRepBlock = 0
  /\ pszLastErr \in {<<>>, szCoefficients}
  /\ dMeasuredVal = 0
  /\ fUseCalib = 1
  /\ idxCurrentScale = -1
  /\ calibTable = DefaultCalib
  /\ calibMeas = NoMeas
  /\ eprom = FactoryFresh
  /\ bCalibErrCode = ERRVAL_SUCCESS
  /\ bInitErrCode = ERRVAL_SUCCESS
  /\ uartCmd \in DecodeLines
  /\ cchi = Len(uartCmd)
  /\ keyCmd = CMD_NONE
  /\ bErrCode = ERRVAL_SUCCESS
  /\ bRepErrCode = ERRVAL_SUCCESS
  /\ uartOut = <<>>
  /\ calls = <<>>
  /\ halted = FALSE

Decode ==
  /\ cchi > 0
  /\ keyCmd = CMD_NONE
  /\ LET d == DMMCMD_CmdDecode(uartCmd)
     IN /\ keyCmd' = d.key
        /\ pszLastErr' = d.pszLastErr
  /\ UNCHANGED << fRepGetVal, fRepGetRaw, fRepBlock, dMeasuredVal, fUseCalib,
                  idxCurrentScale, calibTable, calibMeas, eprom,
                  bCalibErrCode, bInitErrCode,
                  uartCmd, cchi, bErrCode, bRepErrCode,
                  uartOut, calls, halted >>

NextDecode == Decode

SpecDecode == InitDecode /\ [][NextDecode]_vars

-----------------------------------------------------------------------------
(* Vocabulary of the properties. *)

(* A line was received and decoded in the cycle that led to this state. *)
Decoded == cchi > 0 /\ keyCmd # CMD_NONE

(* The first blank-delimited token of a line, stated on positions. *)
HasToken(line) == \E i \in 1..Len(line) : line[i] # " "

Token(line) ==
  LET i == CHOOSE i \in 1..Len(line) :
             line[i] # " " /\ \A k \in 1..(i - 1) : line[k] = " "
      j == CHOOSE j \in i..Len(line) :
             /\ \A k \in i..j : line[k] # " "
             /\ j = Len(line) \/ line[j + 1] = " "
  IN SubSeq(line, i, j)

IsPrefix(a, b) == Len(a) <= Len(b) /\ SubSeq(b, 1, Len(a)) = a
IsSuffix(a, b) == Len(a) <= Len(b) /\ SubSeq(b, Len(b) - Len(a) + 1, Len(b)) = a

(* A token that is no command name but equals one up to letter case, or    *)
(* is a proper prefix or suffix of one, or has one as prefix or suffix.    *)
NearMiss(t) ==
  /\ t \notin CmdNames
  /\ \E n \in CmdNames :
       \/ LowerStr(t) = LowerStr(n)
       \/ IsPrefix(t, n) \/ IsPrefix(n, t)
       \/ IsSuffix(t, n) \/ IsSuffix(n, t)

Armed == fRepGetVal # 0 \/ fRepGetRaw # 0

RepLines(out) == { i \in 1..Len(out) : out[i].by = "DMMCMD_ProcessRepeatedCmd" }

ErrorLines(out) == { i \in 1..Len(out) : out[i].prefix \in {"ERROR", "FAIL"} }

RepAcquisitions(cs) ==
  { i \in 1..Len(cs) : cs[i].by = "DMMCMD_ProcessRepeatedCmd" /\ cs[i].fn = "DMM_DGetValue" }

(* The argument of a command line: what strtok(NULL, ",") yields after the *)
(* command name.                                                           *)
Arg0(line) == DMMCMD_CmdGetNextArg(DMMCMD_CmdDecode(line).rest)

szVoltageDC5 == <<"V", "o", "l", "t", "a", "g", "e", "D", "C", "5">>

IsScaleName(a) == \E i \in 1..Len(rgScales) : rgScales[i] = a

(* The position of a scale name in the catalogue, counted from 0 as the    *)
(* array index is.                                                         *)
ScalePosition(a) == (CHOOSE i \in 1..Len(rgScales) : rgScales[i] = a) - 1

CallsOf(cs, fn) == { i \in 1..Len(cs) : cs[i].fn = fn }

ScaleWasSet(cs) == \E i \in CallsOf(cs, "DMM_SetScale") : cs[i].err = ERRVAL_SUCCESS

PassLines(out) ==
  { i \in 1..Len(out) : out[i].prefix = "PASS" /\ out[i].text = "Selected scale index is: " }

-----------------------------------------------------------------------------
(* C1: a cycle that processes DMMMeasureRaw, right after a cycle that      *)
(* processed DMMMeasureRep, ends with the raw flag armed and the           *)
(* calibrated flag disarmed.                                               *)
C1_RepThenRawArmsRaw ==
  [][(Decoded /\ keyCmd = CMD_MeasureRep /\ cchi' > 0 /\ keyCmd' = CMD_MeasureRaw)
       => (fRepGetRaw' # 0 /\ fRepGetVal' = 0)]_vars

(* C2: a cycle that read and dispatched a line sends no repeated-mode      *)
(* line, and a cycle without a line that ends with a flag armed sends one. *)
C2_CommandCycleSuppressed ==
  [][/\ cchi' > 0 => RepLines(uartOut') = {}
     /\ (cchi' = 0 /\ Armed') => RepLines(uartOut') # {}]_vars

(* C3: the two repeated-mode flags are never both set. *)
C3_FlagsExclusive == ~(fRepGetVal # 0 /\ fRepGetRaw # 0)

(* C3 witness: a DMMMeasureRaw was processed while calibrated streaming    *)
(* was armed.                                                              *)
C3_Witness == Decoded /\ keyCmd = CMD_MeasureRaw /\ fRepGetVal # 0

(* C4: a cycle that processes DMMMeasureStop ends with both flags clear    *)
(* and without a repeated-mode line; and from a state with both flags      *)
(* clear, a cycle that processes neither DMMMeasureRep nor DMMMeasureRaw   *)
(* leaves them clear and sends no repeated-mode line.                      *)
C4_StopSilences ==
  [][/\ (cchi' > 0 /\ keyCmd' = CMD_MeasureStop)
          => (~Armed' /\ RepLines(uartOut') = {})
     /\ (~Armed /\ keyCmd' \notin {CMD_MeasureRep, CMD_MeasureRaw})
          => (~Armed' /\ RepLines(uartOut') = {} /\ RepAcquisitions(calls') = {})]_vars

(* C4 witness: DMMMeasureStop was processed, the flags are clear and the   *)
(* cycle sent its response only.                                           *)
C4_Witness ==
  /\ Decoded /\ keyCmd = CMD_MeasureStop
  /\ ~Armed
  /\ Len(uartOut) = 2 /\ uartOut[2].text = "Stop repeated"

(* C5: every received line whose outcome is an error (the key is INVALID   *)
(* because the name is unrecognized or the line has no token, or the       *)
(* handler returned an error code) has an error line sent in its cycle.    *)
C5_EveryErrorSent ==
  (cchi > 0 /\ ~halted /\ (keyCmd = INVALID \/ bErrCode # ERRVAL_SUCCESS))
     => ErrorLines(uartOut) # {}

(* C6: a line whose first token is no command name decodes to INVALID,     *)
(* with "Unrecognized command:" followed by the token as last error.       *)
C6_UnrecognizedNamed ==
  (Decoded /\ HasToken(uartCmd) /\ Token(uartCmd) \notin CmdNames)
     => (keyCmd = INVALID /\ pszLastErr = szUnrecognized \o Token(uartCmd))

C6_Witness ==
  /\ Decoded /\ HasToken(uartCmd) /\ Token(uartCmd) \notin CmdNames
  /\ keyCmd = INVALID
  /\ Len(pszLastErr) > Len(szUnrecognized)
  /\ Len(uartCmd) > Len(Token(uartCmd))

(* C7: a line without a token decodes to an outcome other than INVALID and *)
(* records "Empty command".                                                *)
C7_EmptyDistinguished ==
  (Decoded /\ ~HasToken(uartCmd))
     => (keyCmd # INVALID /\ pszLastErr = szEmptyCommand)

(* C8: the command names are pairwise different; a line whose first token  *)
(* equals a table entry's name decodes to that entry's key; a token that   *)
(* misses every name only by letter case, or by a prefix or suffix,        *)
(* decodes to INVALID.                                                     *)
C8_ExactLookup ==
  /\ \A i, j \in 1..Len(uartCommands) :
       uartCommands[i].pchCmd = uartCommands[j].pchCmd => i = j
  /\ (Decoded /\ HasToken(uartCmd)) =>
       /\ \A i \in 1..Len(uartCommands) :
            Token(uartCmd) = uartCommands[i].pchCmd => keyCmd = uartCommands[i].eCmd
       /\ NearMiss(Token(uartCmd)) => keyCmd = INVALID

(* C8 witness: a token that equals a name except for letter case. *)
C8_Witness ==
  /\ Decoded /\ HasToken(uartCmd)
  /\ Token(uartCmd) \notin CmdNames
  /\ \E n \in CmdNames : LowerStr(Token(uartCmd)) = LowerStr(n)
  /\ keyCmd = INVALID

(* C9: a cycle whose repeated-mode acquisition fails sends the error line  *)
(* from the repeated step and ends with a flag still armed (the flags as   *)
(* they were, when the cycle processed no line); the cycle after a failed  *)
(* one acquires again unless it processes DMMMeasureStop.                  *)
C9_FailureKeepsStreaming ==
  [][/\ bRepErrCode' # ERRVAL_SUCCESS =>
          /\ \E i \in RepLines(uartOut') :
               uartOut'[i].prefix = "ERROR" /\ uartOut'[i].code = bRepErrCode'
          /\ Armed'
          /\ cchi' = 0 => (fRepGetVal' = fRepGetVal /\ fRepGetRaw' = fRepGetRaw)
     /\ (bRepErrCode # ERRVAL_SUCCESS /\ ~halted' /\ keyCmd' # CMD_MeasureStop)
          => RepAcquisitions(calls') # {}]_vars

(* C9 witness: a cycle without a line whose acquisition failed. *)
C9_Witness ==
  /\ cchi = 0
  /\ bRepErrCode # ERRVAL_SUCCESS
  /\ fRepGetVal # 0
  /\ RepAcquisitions(calls) # {}

(* C10: calibration is in use at the end of every cycle, and every         *)
(* acquisition made with calibration switched off is preceded by the       *)
(* switching off and followed at once by the switching on.                 *)
C10_CalibrationRestored ==
  /\ fUseCalib = 1
  /\ \A i \in 1..Len(calls) :
       (calls[i].fn \in {"DMM_DGetValue", "DMM_DGetAvgValue"} /\ calls[i].arg = 0) =>
          /\ i > 1 /\ i < Len(calls)
          /\ calls[i - 1].fn = "DMM_SetUseCalib" /\ calls[i - 1].arg = 0
          /\ calls[i + 1].fn = "DMM_SetUseCalib" /\ calls[i + 1].arg = 1

(* C10 witness: an acquisition with calibration off failed. *)
C10_Witness ==
  /\ fUseCalib = 1
  /\ \E i \in 1..Len(calls) :
       /\ calls[i].fn = "DMM_DGetValue"
       /\ calls[i].arg = 0
       /\ calls[i].err # ERRVAL_SUCCESS

(* C11 as stated: a DMMConfig VoltageDC5 whose scale is set sends          *)
(* "PASS, Selected scale index is: 7".                                     *)
C11_VoltageDC5ReportsSeven ==
  (Decoded /\ keyCmd = CMD_Config /\ Arg0(uartCmd).ok
     /\ Arg0(uartCmd).tok = szVoltageDC5 /\ ScaleWasSet(calls))
     => \E i \in PassLines(uartOut) : uartOut[i].num = 7

(* C11: a DMMConfig with a scale name whose scale is set sends one PASS    *)
(* line, and the index on it is the position of the name in the scale      *)
(* catalogue counted from 0, which is the index handed to DMM_SetScale;    *)
(* for VoltageDC5 it is 8.                                                 *)
C11_ReportsCataloguePosition ==
  /\ ScalePosition(szVoltageDC5) = 8
  /\ (Decoded /\ keyCmd = CMD_Config /\ Arg0(uartCmd).ok /\ ScaleWasSet(calls)) =>
       /\ IsScaleName(Arg0(uartCmd).tok)
       /\ Cardinality(PassLines(uartOut)) = 1
       /\ \A i \in PassLines(uartOut) :
            /\ uartOut[i].num = ScalePosition(Arg0(uartCmd).tok)
            /\ \A j \in CallsOf(calls, "DMM_SetScale") : calls[j].arg = uartOut[i].num

(* C11 witness: DMMConfig VoltageDC5 set the scale and the PASS line was   *)
(* sent.                                                                   *)
C11_Witness ==
  /\ Decoded /\ keyCmd = CMD_Config
  /\ Arg0(uartCmd).ok /\ Arg0(uartCmd).tok = szVoltageDC5
  /\ ScaleWasSet(calls)
  /\ PassLines(uartOut) # {}
  /\ idxCurrentScale = 8

(* C12: a cycle that processes DMMConfig with an argument that is no       *)
(* catalogue name sends FAIL, Missing valid configuration: with that       *)
(* argument, does not call DMM_SetScale and leaves the current scale as it *)
(* was.                                                                    *)
C12_UnknownScaleRejected ==
  [][(cchi' > 0 /\ keyCmd' = CMD_Config /\ Arg0(uartCmd').ok
        /\ ~IsScaleName(Arg0(uartCmd').tok)) =>
       /\ \E i \in 1..Len(uartOut') :
            /\ uartOut'[i].prefix = "FAIL"
            /\ uartOut'[i].text = "Missing valid configuration: "
            /\ uartOut'[i].str = Arg0(uartCmd').tok
       /\ PassLines(uartOut') = {}
       /\ CallsOf(calls', "DMM_SetScale") = {}
       /\ idxCurrentScale' = idxCurrentScale]_vars

(* C12 witness: a scale was selected earlier, and a DMMConfig with an      *)
(* unknown name was answered with the FAIL line.                           *)
C12_Witness ==
  /\ Decoded /\ keyCmd = CMD_Config
  /\ Arg0(uartCmd).ok /\ ~IsScaleName(Arg0(uartCmd).tok)
  /\ idxCurrentScale >= 0
  /\ \E i \in 1..Len(uartOut) : uartOut[i].prefix = "FAIL"

(* C13: a cycle that dispatches the INVALID key leaves the repeated-mode   *)
(* flags, the current scale, the coefficient table, the calibration        *)
(* session, the store and the calibration switch as they were; its         *)
(* dispatch calls nothing but the delay of 1000 units and sends nothing    *)
(* (every other call and every line after the echo belongs to the          *)
(* repeated step); in the state it starts from, a dispatch of the NONE key *)
(* is the delay alone as well; and every dispatch that returns runs the    *)
(* delay exactly once.                                                     *)
C13_InvalidIsNoOp ==
  [][/\ (cchi' > 0 /\ keyCmd' \in {INVALID, CMD_NONE}) =>
          /\ \A key \in {INVALID, CMD_NONE} :
               DMMCMD_ProcessCmd(key, CycleStart, <<>>, R0) = DelayAprox10Us(CycleStart, 1000)
          /\ fRepGetVal' = fRepGetVal /\ fRepGetRaw' = fRepGetRaw
          /\ idxCurrentScale' = idxCurrentScale
          /\ calibTable' = calibTable /\ calibMeas' = calibMeas /\ eprom' = eprom
          /\ fUseCalib' = fUseCalib
          /\ bErrCode' = ERRVAL_SUCCESS
          /\ uartOut'[1].by = "DMMCMD_CheckForCommand"
          /\ \A i \in 2..Len(uartOut') : uartOut'[i].by = "DMMCMD_ProcessRepeatedCmd"
          /\ calls'[1] = Call("DMMCMD_ProcessCmd", "DelayAprox10Us", 1000, ERRVAL_SUCCESS)
          /\ \A i \in 2..Len(calls') : calls'[i].by = "DMMCMD_ProcessRepeatedCmd"
     /\ (cchi' > 0 /\ ~halted') =>
          /\ Cardinality(CallsOf(calls', "DelayAprox10Us")) = 1
          /\ \A i \in CallsOf(calls', "DelayAprox10Us") : calls'[i].arg = 1000]_vars

(* C13 witness: an unrecognized line was dispatched while streaming was    *)
(* armed and the coefficient table had been changed; the delay ran and     *)
(* the repeated step acquired.                                             *)
C13_Witness ==
  /\ Decoded /\ keyCmd = INVALID
  /\ Armed
  /\ calibTable # DefaultCalib
  /\ RepAcquisitions(calls) # {}
  /\ CallsOf(calls, "DelayAprox10Us") # {}

(* A calibration wrote coefficients, and its report into the last-error    *)
(* string, in this cycle.                                                  *)
Committed(cs) ==
  \E i \in 1..Len(cs) :
    /\ cs[i].err = ERRVAL_SUCCESS
    /\ \/ cs[i].fn \in {"CALIB_CalibOnPositive", "CALIB_CalibOnNegative"} /\ cs[i].arg = 1
       \/ cs[i].fn = "CALIB_CalibOnZero"

OkLines(out) == { i \in 1..Len(out) : out[i].prefix = "OK" }

(* C14: at the end of a cycle that decoded a command name, the last-error  *)
(* string is empty and every success message of the handler carries an     *)
(* empty last-error text, unless a calibration of this very cycle wrote    *)
(* its coefficients report; after a line that is no command the string     *)
(* holds the diagnostic of this line only.                                 *)
C14_LastErrorCleared ==
  /\ (Decoded /\ keyCmd # INVALID /\ ~halted /\ ~Committed(calls)) =>
       /\ pszLastErr = <<>>
       /\ \A i \in OkLines(uartOut) : uartOut[i].str = <<>>
  /\ (Decoded /\ keyCmd = INVALID) =>
       pszLastErr = IF HasToken(uartCmd) THEN szUnrecognized \o Token(uartCmd)
                    ELSE szEmptyCommand

(* C14 witness: a preview calibration succeeded on a scale whose           *)
(* coefficients an earlier command had committed (leaving its report in    *)
(* the last-error string), and its message carries no report.              *)
C14_Witness ==
  /\ Decoded /\ keyCmd = CMD_CalibP /\ bErrCode = ERRVAL_SUCCESS
  /\ idxCurrentScale >= 0 /\ calibTable # DefaultCalib
  /\ pszLastErr = <<>>
  /\ \E i \in OkLines(uartOut) : uartOut[i].str = <<>>

Polarities == {"P", "N"}

FinalizeKey(pol) == IF pol = "P" THEN CMD_FinalizeCalibP ELSE CMD_FinalizeCalibN
MeasureForCalibKey(pol) == IF pol = "P" THEN CMD_MeasureForCalibP ELSE CMD_MeasureForCalibN
CalibOnFn(pol) == IF pol = "P" THEN "CALIB_CalibOnPositive" ELSE "CALIB_CalibOnNegative"

ErrorLineOf(out, code) ==
  \E i \in 1..Len(out) : out[i].prefix = "ERROR" /\ out[i].code = code

(* A polarity becomes measured only by its successful measurement command, *)
(* and a DMMConfig that sets a scale or a successful finalize leaves no    *)
(* polarity measured.                                                      *)
SessionFollowsCommands ==
  /\ \A pol \in Polarities :
       (calibMeas'[pol] /\ ~calibMeas[pol]) =>
          (cchi' > 0 /\ keyCmd' = MeasureForCalibKey(pol) /\ bErrCode' = ERRVAL_SUCCESS)
  /\ (cchi' > 0 /\ keyCmd' = CMD_Config /\ ScaleWasSet(calls')) => calibMeas' = NoMeas
  /\ \A pol \in Polarities :
       (cchi' > 0 /\ keyCmd' = FinalizeKey(pol) /\ bErrCode' = ERRVAL_SUCCESS)
          => calibMeas' = NoMeas

(* C15 as stated: a finalize command of a polarity that is not measured    *)
(* always returns the missing-measurement error, sends it and leaves the   *)
(* coefficient table as it was.                                            *)
C15_FinalizeAlwaysMissing ==
  [][\A pol \in Polarities :
       (cchi' > 0 /\ keyCmd' = FinalizeKey(pol) /\ ~calibMeas[pol]) =>
          /\ bErrCode' = ERRVAL_CALIB_MISSINGMEASUREMENT
          /\ ErrorLineOf(uartOut', ERRVAL_CALIB_MISSINGMEASUREMENT)
          /\ calibTable' = calibTable]_vars

(* C15: a finalize command of a polarity that is not measured (no          *)
(* successful measurement command of that polarity since the last          *)
(* DMMConfig that set a scale or the last successful finalize) leaves the  *)
(* coefficient table as it was and sends an error: the missing-measurement *)
(* error when its reference value is accepted and the calibration is       *)
(* called, the error of the value interpretation otherwise.                *)
C15_FinalizeNeedsMeasurement ==
  [][/\ SessionFollowsCommands
     /\ \A pol \in Polarities :
          (cchi' > 0 /\ keyCmd' = FinalizeKey(pol) /\ ~calibMeas[pol]) =>
             /\ calibTable' = calibTable
             /\ ErrorLineOf(uartOut', bErrCode')
             /\ IF CallsOf(calls', CalibOnFn(pol)) # {}
                THEN bErrCode' = ERRVAL_CALIB_MISSINGMEASUREMENT
                ELSE bErrCode' \in {ERRVAL_CMD_VALFORMAT, ERRVAL_CMD_VALWRONGUNIT}]_vars

(* C15 witness: on a selected scale the negative value was measured, the   *)
(* positive one was not, and DMMFinalizeCalibP was refused for the missing *)
(* measurement.                                                            *)
C15_Witness ==
  /\ Decoded /\ keyCmd = CMD_FinalizeCalibP
  /\ bErrCode = ERRVAL_CALIB_MISSINGMEASUREMENT
  /\ idxCurrentScale >= 0
  /\ calibMeas["N"] /\ ~calibMeas["P"]
  /\ ErrorLineOf(uartOut, ERRVAL_CALIB_MISSINGMEASUREMENT)

CalibKeys ==
  {CMD_CalibZ, CMD_CalibP, CMD_CalibN, CMD_FinalizeCalibP, CMD_FinalizeCalibN}

CalibCalls(cs) ==
  { i \in 1..Len(cs) :
      cs[i].fn \in {"CALIB_CalibOnZero", "CALIB_CalibOnPositive", "CALIB_CalibOnNegative"} }

(* C17: a calibration command whose readings have a dispersion above the   *)
(* threshold returns the dispersion error, sends it as an error line,      *)
(* sends no success message and leaves the coefficient table as it was; a  *)
(* success message of a calibration command comes with a dispersion within *)
(* the threshold and carries the measured value.                           *)
C17_DispersionRejected ==
  [][(cchi' > 0 /\ keyCmd' \in CalibKeys) =>
       /\ \A i \in CalibCalls(calls') :
            calls'[i].val = 1 =>
               /\ bErrCode' = ERRVAL_DMM_MEASUREDISPERSION
               /\ ErrorLineOf(uartOut', ERRVAL_DMM_MEASUREDISPERSION)
               /\ OkLines(uartOut') = {}
               /\ calibTable' = calibTable
       /\ \A k \in OkLines(uartOut') :
            /\ \E i \in CalibCalls(calls') : calls'[i].val = 0 /\ calls'[i].err = ERRVAL_SUCCESS
            /\ uartOut'[k].num = dMeasuredVal']_vars

(* C17 witness: a DMMCalibZ on a selected scale was rejected for the       *)
(* dispersion of its readings.                                             *)
C17_Witness ==
  /\ Decoded /\ keyCmd = CMD_CalibZ
  /\ idxCurrentScale >= 0
  /\ bErrCode = ERRVAL_DMM_MEASUREDISPERSION
  /\ \E i \in CalibCalls(calls) : calls[i].val = 1
  /\ ErrorLineOf(uartOut, ERRVAL_DMM_MEASUREDISPERSION)

(* What is wrong with a stored record: its magic number, else its          *)
(* checksum, else nothing.                                                 *)
WrongMagic(rec) == rec.magic # CalibMagic
WrongChecksum(rec) == rec.crc # Checksum(rec.table)

IntegrityError(rec) ==
  IF WrongMagic(rec) THEN ERRVAL_EPROM_MAGICNO
  ELSE IF WrongChecksum(rec) THEN ERRVAL_EPROM_CRC
  ELSE ERRVAL_SUCCESS

(* C18: a load of a record with a wrong magic number or a wrong checksum   *)
(* returns the integrity error and leaves the table in memory as it was:   *)
(* the load of the FACTORY record by DMMRestoreFactCalibs and the re-read  *)
(* of the USER record by DMMVerifyEPROM send that error and change neither *)
(* the table nor the store, and the load of the USER record by CALIB_Init  *)
(* returns it and leaves the default table.                                *)
C18_CorruptRecordRejected ==
  [][/\ (cchi' > 0 /\ keyCmd' = CMD_RestoreFactCalibs
          /\ IntegrityError(eprom.factory) # ERRVAL_SUCCESS) =>
          /\ bErrCode' = IntegrityError(eprom.factory)
          /\ ErrorLineOf(uartOut', IntegrityError(eprom.factory))
          /\ OkLines(uartOut') = {}
          /\ calibTable' = calibTable /\ eprom' = eprom
     /\ (cchi' > 0 /\ keyCmd' = CMD_VerifyEPROM
          /\ IntegrityError(eprom.user) # ERRVAL_SUCCESS) =>
          /\ bErrCode' = IntegrityError(eprom.user)
          /\ ErrorLineOf(uartOut', IntegrityError(eprom.user))
          /\ calibTable' = calibTable /\ eprom' = eprom
     /\ IntegrityError(eprom.user) # ERRVAL_SUCCESS =>
          /\ CALIB_Init(eprom).ret = IntegrityError(eprom.user)
          /\ CALIB_Init(eprom).calibTable = DefaultCalib]_vars

(* C18 witness: the table in memory had been changed, the FACTORY record   *)
(* has a wrong checksum, and DMMRestoreFactCalibs was refused with the     *)
(* checksum error.                                                         *)
C18_Witness ==
  /\ Decoded /\ keyCmd = CMD_RestoreFactCalibs
  /\ bErrCode = ERRVAL_EPROM_CRC
  /\ ~WrongMagic(eprom.factory) /\ WrongChecksum(eprom.factory)
  /\ calibTable # DefaultCalib /\ calibTable # eprom.factory.table
  /\ ErrorLineOf(uartOut, ERRVAL_EPROM_CRC)

(* C19: the value DMMCMD_Init returned is the outcome of reading the USER  *)
(* record in CALIB_Init: the magic number error, the checksum error or     *)
(* success.                                                                *)
C19_InitReturnsCalibResult ==
  /\ bInitErrCode = bCalibErrCode
  /\ bInitErrCode \in {ERRVAL_EPROM_MAGICNO, ERRVAL_EPROM_CRC, ERRVAL_SUCCESS}

SaveLines(out) == { i \in 1..Len(out) : out[i].text = "calibrations written to EPROM" }

SaveTimedOut(cs) ==
  \E i \in CallsOf(cs, "CALIB_WriteAllCalibsToEPROM_User") : cs[i].err = ERRVAL_EPROM_WRTIMEOUT

(* C20: a cycle that processes DMMSaveEPROM with N entries of the table in *)
(* memory different from the stored ones sends, when the write completes,  *)
(* one success line "N calibrations written to EPROM" and leaves the table *)
(* stored; when the write times out it sends the write-timeout error and   *)
(* no count.                                                               *)
C20_SaveReportsChanged ==
  [][(cchi' > 0 /\ keyCmd' = CMD_SaveEPROM) =>
       IF SaveTimedOut(calls')
       THEN /\ bErrCode' = ERRVAL_EPROM_WRTIMEOUT
            /\ ErrorLineOf(uartOut', ERRVAL_EPROM_WRTIMEOUT)
            /\ SaveLines(uartOut') = {}
       ELSE /\ bErrCode' = ERRVAL_SUCCESS
            /\ Cardinality(SaveLines(uartOut')) = 1
            /\ \A k \in SaveLines(uartOut') :
                 /\ uartOut'[k].prefix = "OK"
                 /\ uartOut'[k].num =
                      Cardinality({ i \in ScaleIndexes : calibTable[i] # eprom.user.table[i] })
            /\ eprom'.user.table = calibTable]_vars

(* C20 witness: two entries had been imported and the save reported 2. *)
C20_Witness ==
  /\ Decoded /\ keyCmd = CMD_SaveEPROM /\ bErrCode = ERRVAL_SUCCESS
  /\ \E k \in SaveLines(uartOut) : uartOut[k].num = 2
  /\ eprom.user.table = calibTable

(* The three comma-delimited tokens that follow the command name on a      *)
(* line, in the order in which they stand on the line.                     *)
LineArgs(line) == NextArgSeq(DMMCMD_CmdDecode(line).rest, 3)

IsNumber(a) == a.ok /\ sscanf(a.tok).n = 1

ThreeNumbers(line) == \A i \in 1..3 : IsNumber(LineArgs(line)[i])

ArgVal(line, i) == sscanf(LineArgs(line)[i].tok).v

ImportCalls(cs) == CallsOf(cs, "CALIB_ImportCalibCoefficients")

(* C21: a cycle that processes DMMImportCalib index,mult,add leaves the    *)
(* persisted records as they were; with an index outside the catalogue it  *)
(* returns and sends the wrong-scale-index error and leaves the table in   *)
(* memory as it was; with an index inside, the table in memory afterwards  *)
(* is the one before with exactly the entry at that index replaced by      *)
(* (mult, add).                                                            *)
C21_ImportWritesNamedEntry ==
  [][(cchi' > 0 /\ keyCmd' = CMD_ImportCalib /\ ThreeNumbers(uartCmd')) =>
       /\ eprom' = eprom
       /\ IF ArgVal(uartCmd', 1) \in ScaleIndexes
          THEN calibTable' = [calibTable EXCEPT ![ArgVal(uartCmd', 1)] =
                                 Coeff(ArgVal(uartCmd', 2), ArgVal(uartCmd', 3))]
          ELSE /\ bErrCode' = ERRVAL_DMM_IDXCONFIG
               /\ ErrorLineOf(uartOut', ERRVAL_DMM_IDXCONFIG)
               /\ calibTable' = calibTable]_vars

(* The line that imports entry i as the export of the table writes it. *)
ImportLineOf(table, i) == CmdName(CMD_ImportCalib) \o <<" ">> \o ExportEntry(table, i)

C23_StoreWriters ==
  [][/\ eprom'.factory = eprom.factory
     /\ eprom'.user # eprom.user =>
          (cchi' > 0 /\ keyCmd' \in {CMD_SaveEPROM, CMD_RestoreFactCalibs})
     /\ (cchi' > 0 /\ keyCmd' = CMD_RestoreFactCalibs /\ bErrCode' = ERRVAL_SUCCESS) =>
          /\ calibTable' = eprom.factory.table
          /\ eprom'.user.table = eprom.factory.table
          /\ IntegrityError(eprom'.user) = ERRVAL_SUCCESS]_vars

(* C23 witness: the USER record was unusable at start-up, and a            *)
(* DMMRestoreFactCalibs succeeded: table and USER record hold the FACTORY  *)
(* table, which is not the default one.                                    *)
C23_Witness ==
  /\ Decoded /\ keyCmd = CMD_RestoreFactCalibs /\ bErrCode = ERRVAL_SUCCESS
  /\ bCalibErrCode # ERRVAL_SUCCESS
  /\ calibTable = eprom.factory.table /\ calibTable # DefaultCalib
  /\ eprom.user = CalibRecord(eprom.factory.table)

DisplayCalls(cs) == CallsOf(cs, "DMMCMD_PmodOLEDDisplay")

(* The value lines of calibrated streaming sent in a cycle. *)
RepValueLines(out) == { i \in RepLines(out) : out[i].text = "Value: " }

(* C24: in every cycle the display is refreshed once by DMMConfig if the   *)
(* cycle processed a DMMConfig that set the scale, showing the new scale   *)
(* and the value placeholder, and once by the repeated step if it sent a   *)
(* calibrated value, showing the current scale and that value; there is no *)
(* other refresh: none on a DMMConfig that set no scale, on a failed       *)
(* acquisition, on a raw reading or by any other command.                  *)
C24_DisplayRefresh ==
  [][/\ Cardinality({ i \in DisplayCalls(calls') : calls'[i].by = "DMMCMD_CmdConfig" })
           = IF cchi' > 0 /\ keyCmd' = CMD_Config /\ ScaleWasSet(calls') THEN 1 ELSE 0
     /\ Cardinality({ i \in DisplayCalls(calls') : calls'[i].by = "DMMCMD_ProcessRepeatedCmd" })
           = Cardinality(RepValueLines(uartOut'))
     /\ \A i \in DisplayCalls(calls') :
          /\ calls'[i].by \in {"DMMCMD_CmdConfig", "DMMCMD_ProcessRepeatedCmd"}
          /\ calls'[i].arg = idxCurrentScale'
          /\ calls'[i].val = IF calls'[i].by = "DMMCMD_CmdConfig" THEN NoReading
                             ELSE dMeasuredVal'
     /\ \A i \in RepValueLines(uartOut') : uartOut'[i].num = dMeasuredVal'
     /\ (bRepErrCode' # ERRVAL_SUCCESS \/ fRepGetVal' = 0) => RepValueLines(uartOut') = {}]_vars

(* C24 witness: a DMMConfig VoltageDC5 set the scale while calibrated      *)
(* streaming was armed, and the repeated step of the same cycle sent a     *)
(* value: the display was refreshed twice.                                 *)
C24_Witness ==
  /\ Decoded /\ keyCmd = CMD_Config /\ ScaleWasSet(calls)
  /\ idxCurrentScale = 8
  /\ RepValueLines(uartOut) # {}
  /\ Cardinality(DisplayCalls(calls)) = 2

(* C25: a cycle that processes DMMImportCalib with fewer than three        *)
(* comma-delimited arguments returns and sends the wrong-parameters error; *)
(* with three arguments of which one is no number it returns and sends an  *)
(* input error (wrong parameters or the generic error with the text that   *)
(* names the argument); in both cases CALIB_ImportCalibCoefficients is not *)
(* called and the coefficient table stays as it was.                       *)
C25_BadArgumentsRejected ==
  [][(cchi' > 0 /\ keyCmd' = CMD_ImportCalib /\ ~ThreeNumbers(uartCmd')) =>
       /\ IF \E i \in 1..3 : ~LineArgs(uartCmd')[i].ok
          THEN bErrCode' = ERRVAL_CMD_WRONGPARAMS
          ELSE bErrCode' \in {ERRVAL_CMD_WRONGPARAMS, ERRVAL_DMM_GENERICERROR}
       /\ ErrorLineOf(uartOut', bErrCode')
       /\ ImportCalls(calls') = {}
       /\ calibTable' = calibTable]_vars

EchoLines(out) == { i \in 1..Len(out) : out[i].by = "DMMCMD_CheckForCommand" }

(* C26: every cycle that returns handles at most one line: it echoes the   *)
(* line it read first and once, decodes it and dispatches it once (none of *)
(* that without a line); and it runs the repeated step once, after the     *)
(* dispatch, with or without a line: one acquisition and one repeated-mode *)
(* line when a flag is armed, none otherwise.  What a cycle sends and      *)
(* calls is its own: the previous cycle was complete.                      *)
C26_OneLineOneStep ==
  [][~halted' =>
       /\ cchi' = Len(uartCmd')
       /\ EchoLines(uartOut') = IF cchi' > 0 THEN {1} ELSE {}
       /\ \A i \in EchoLines(uartOut') : uartOut'[i].str = uartCmd'
       /\ cchi' = 0 => keyCmd' = CMD_NONE
       /\ cchi' > 0 => keyCmd' = DMMCMD_CmdDecode(uartCmd').key
       /\ Cardinality(CallsOf(calls', "DelayAprox10Us")) = IF cchi' > 0 THEN 1 ELSE 0
       /\ Cardinality(RepAcquisitions(calls')) = IF Armed' THEN 1 ELSE 0
       /\ Cardinality(RepLines(uartOut')) = IF Armed' THEN 1 ELSE 0
       /\ \A i \in RepLines(uartOut') : i = Len(uartOut')
       /\ \A i \in RepAcquisitions(calls') :
            \A j \in CallsOf(calls', "DelayAprox10Us") : j < i]_vars

(* C26 witness: a cycle without a line, right after DMMMeasureRep was      *)
(* armed, made its one acquisition and sent its one line.                  *)
C26_Witness ==
  /\ cchi = 0 /\ keyCmd = CMD_NONE
  /\ fRepGetVal # 0
  /\ Cardinality(RepAcquisitions(calls)) = 1
  /\ Len(uartOut) = 1 /\ RepLines(uartOut) = {1}
  /\ bRepErrCode = ERRVAL_SUCCESS

(* The prefixes a response can begin with: those of the ERRORS module and  *)
(* those of DMMConfig.                                                     *)
KnownPrefixes == {"OK", "ERROR", "PASS", "FAIL"}

(* The lines a cycle sent that are neither the echo nor of the repeated    *)
(* step: the response of the handler.                                      *)
ResponseLines(out) == (1..Len(out)) \ (EchoLines(out) \cup RepLines(out))

(* C27 as stated: in a cycle that received a line, the first line sent     *)
(* after the echo begins with a known success or error prefix.             *)
C27_FirstLinePrefixed ==
  (cchi > 0 /\ ~halted) =>
     (Len(uartOut) >= 2 /\ uartOut[2].prefix \in KnownPrefixes)

(* C27: in a cycle that received a line, the first line sent is the echo   *)
(* of the line; a line that is no command gets no response from the        *)
(* dispatch; a command gets a response whose first line comes right after  *)
(* the echo and begins with a known success or error prefix, except that   *)
(* the value line of a successful DMMMeasureRaw or DMMMeasureAvg has no    *)
(* prefix.                                                                 *)
C27_ResponsePrefix ==
  (cchi > 0 /\ ~halted) =>
     /\ EchoLines(uartOut) = {1}
     /\ uartOut[1].text = "Received command: " /\ uartOut[1].str = uartCmd
     /\ IF keyCmd = INVALID THEN ResponseLines(uartOut) = {}
        ELSE /\ 2 \in ResponseLines(uartOut)
             /\ IF keyCmd \in {CMD_MeasureRaw, CMD_MeasureAvg} /\ bErrCode = ERRVAL_SUCCESS
                THEN /\ uartOut[2].prefix = ""
                     /\ uartOut[2].text \in {"Raw Value: ", "Avg. Value: "}
                ELSE uartOut[2].prefix \in KnownPrefixes

(* C27 witness: a DMMMeasureAvg succeeded while streaming was armed; its   *)
(* value line follows the echo and the line of the repeated step follows   *)
(* it.                                                                     *)
C27_Witness ==
  /\ Decoded /\ keyCmd = CMD_MeasureAvg /\ bErrCode = ERRVAL_SUCCESS
  /\ Len(uartOut) = 3
  /\ uartOut[2].text = "Avg. Value: "
  /\ RepLines(uartOut) = {3}

(* The lines that carry bytes of the export buffer. *)
ExportBufferLines(out) == { i \in 1..Len(out) : out[i].text = "calExp" /\ out[i].str # <<>> }

(* C28: a cycle that processes DMMExportCalib sends the export buffer only *)
(* when the export returned success; when it returned an error, the error  *)
(* message is sent and nothing of the buffer.                              *)
C28_ExportTextOnlyOnSuccess ==
  (Decoded /\ keyCmd = CMD_ExportCalib) =>
     IF bErrCode = ERRVAL_SUCCESS
     THEN OkLines(uartOut) # {} /\ ExportBufferLines(uartOut) # {}
     ELSE ErrorLineOf(uartOut, bErrCode) /\ ExportBufferLines(uartOut) = {}

(* C29: from a state with calibrated streaming armed, every cycle that     *)
(* returns and does not process DMMMeasureStop leaves it armed and sends   *)
(* exactly one repeated-mode line, the value line or, when the acquisition *)
(* failed, its error line, whatever command the cycle processed; the cycle *)
(* that processes DMMMeasureRep arms it and sends the first such line; a   *)
(* cycle that processes DMMMeasureStop disarms it.                         *)
C29_StreamUntilStop ==
  [][~halted' =>
       /\ (cchi' > 0 /\ keyCmd' = CMD_MeasureRep) => fRepGetVal' # 0
       /\ (cchi' > 0 /\ keyCmd' = CMD_MeasureStop) => fRepGetVal' = 0
       /\ (fRepGetVal # 0 /\ ~(cchi' > 0 /\ keyCmd' = CMD_MeasureStop)) => fRepGetVal' # 0
       /\ fRepGetVal' # 0 =>
            /\ Cardinality(RepLines(uartOut')) = 1
            /\ \A i \in RepLines(uartOut') :
                 IF bRepErrCode' = ERRVAL_SUCCESS
                 THEN uartOut'[i].text = "Value: " /\ uartOut'[i].prefix = ""
                 ELSE uartOut'[i].prefix = "ERROR" /\ uartOut'[i].code = bRepErrCode']_vars

(* C29 witness: while calibrated streaming was armed a DMMConfig set the   *)
(* scale, the acquisition of that cycle failed, and streaming is still     *)
(* armed.                                                                  *)
C29_Witness ==
  /\ Decoded /\ keyCmd = CMD_Config /\ ScaleWasSet(calls)
  /\ bRepErrCode # ERRVAL_SUCCESS
  /\ fRepGetVal # 0
  /\ Cardinality(RepLines(uartOut)) = 1

CommandKeys == { uartCommands[i].eCmd : i \in 1..Len(uartCommands) }

(* The handler each command key is to be dispatched to. *)
HandlerOf(key) ==
  CASE key = CMD_Config -> "DMMCMD_CmdConfig"
    [] key = CMD_CalibP -> "DMMCMD_CmdCalibP"
    [] key = CMD_CalibN -> "DMMCMD_CmdCalibN"
    [] key = CMD_CalibZ -> "DMMCMD_CmdCalibZ"
    [] key = CMD_MeasureRep -> "DMMCMD_CmdMeasureRep"
    [] key = CMD_MeasureStop -> "DMMCMD_CmdMeasureStop"
    [] key = CMD_MeasureRaw -> "DMMCMD_CmdMeasureRaw"
    [] key = CMD_MeasureAvg -> "DMMCMD_CmdMeasureAvg"
    [] key = CMD_SaveEPROM -> "DMMCMD_CmdSaveEPROM"
    [] key = CMD_VerifyEPROM -> "DMMCMD_CmdVerifyEPROM"
    [] key = CMD_ExportCalib -> "DMMCMD_CmdExportCalib"
    [] key = CMD_ImportCalib -> "DMMCMD_CmdImportCalib"
    [] key = CMD_MeasureForCalibP -> "DMMCMD_CmdMeasureForCalibP"
    [] key = CMD_MeasureForCalibN -> "DMMCMD_CmdMeasureForCalibN"
    [] key = CMD_FinalizeCalibP -> "DMMCMD_CmdFinalizeCalibP"
    [] key = CMD_FinalizeCalibN -> "DMMCMD_CmdFinalizeCalibN"
    [] key = CMD_RestoreFactCalibs -> "DMMCMD_CmdRestoreFactCalib"
    [] key = CMD_ReadSerialNo -> "DMMCMD_CmdReadSerialNo"

(* The number of arguments the handler of a key takes. *)
ExpectedArgs(key) ==
  IF key \in {CMD_Config, CMD_CalibP, CMD_CalibN, CMD_FinalizeCalibP, CMD_FinalizeCalibN}
  THEN 1
  ELSE IF key = CMD_ImportCalib THEN 3 ELSE 0

ArgCalls(cs) == CallsOf(cs, "DMMCMD_CmdGetNextArg")

(* The calls a handler made: all but those of the dispatch itself and of   *)
(* the repeated step.                                                      *)
HandlerCalls(cs) ==
  { i \in 1..Len(cs) : cs[i].by \notin {"DMMCMD_ProcessCmd", "DMMCMD_ProcessRepeatedCmd"} }

(* C30: there are 18 command keys, each with a handler of its own; a cycle *)
(* that dispatches a command key sends its response and makes its calls    *)
(* from the handler of that key and from no other, after asking for        *)
(* exactly the arguments that handler takes (one for Config, CalibP,       *)
(* CalibN, FinalizeCalibP, FinalizeCalibN, three for ImportCalib, none for *)
(* the others), each call yielding the next comma-delimited token of the   *)
(* line just decoded, or NULL; no argument is asked for in a cycle without *)
(* a line, for a line that is no command, or by the repeated step.         *)
C30_DispatchArguments ==
  /\ Cardinality(CommandKeys) = 18
  /\ \A k1, k2 \in CommandKeys : HandlerOf(k1) = HandlerOf(k2) => k1 = k2
  /\ \A i \in ArgCalls(calls) : calls[i].by = "DMMCMD_ProcessCmd"
  /\ cchi = 0 => ArgCalls(calls) = {}
  /\ (cchi > 0 /\ keyCmd \notin CommandKeys) =>
        (ArgCalls(calls) = {} /\ HandlerCalls(calls) = {} /\ ResponseLines(uartOut) = {})
  /\ (cchi > 0 /\ keyCmd \in CommandKeys) =>
        /\ ArgCalls(calls) = 1..ExpectedArgs(keyCmd)
        /\ \A i \in ArgCalls(calls) :
             /\ calls[i].arg = i
             /\ calls[i].val = IF LineArgs(uartCmd)[i].ok THEN 1 ELSE 0
        /\ \A i \in HandlerCalls(calls) : calls[i].by = HandlerOf(keyCmd)
        /\ \A i \in ResponseLines(uartOut) : uartOut[i].by = HandlerOf(keyCmd)
        /\ ~halted => ResponseLines(uartOut) # {}

(* C30 witness: a DMMImportCalib line with three tokens was dispatched:    *)
(* three arguments were asked for, each yielded a token, and the import    *)
(* was called by its handler.                                              *)
C30_Witness ==
  /\ Decoded /\ keyCmd = CMD_ImportCalib
  /\ Cardinality(ArgCalls(calls)) = 3
  /\ \A i \in ArgCalls(calls) : calls[i].val = 1
  /\ \E i \in ImportCalls(calls) : calls[i].by = "DMMCMD_CmdImportCalib"

(* C31: in a cycle that processes a DMMImportCalib line with three numbers *)
(* the handler receives the tokens in line order: the index it hands to    *)
(* the import is the first token of the line, and when the import accepted *)
(* it, the entry at that index holds the second token as multiplicative    *)
(* and the third as additive coefficient.                                  *)
C31_ImportArgsInLineOrder ==
  (cchi > 0 /\ keyCmd = CMD_ImportCalib /\ ThreeNumbers(uartCmd)) =>
    /\ Cardinality(ImportCalls(calls)) = 1
    /\ \A i \in ImportCalls(calls) :
         /\ calls[i].arg = ArgVal(uartCmd, 1)
         /\ calls[i].err = ERRVAL_SUCCESS =>
              calibTable[calls[i].arg] = Coeff(ArgVal(uartCmd, 2), ArgVal(uartCmd, 3))

(* C32: a cycle that processes a DMMConfig line with no argument returns,  *)
(* sends one line of the handler that carries an error prefix and formats  *)
(* no argument, calls no scale selection and leaves the scale as it was:   *)
(* the absent argument is neither compared nor formatted.                  *)
C32_MissingConfigArgument ==
  [][(cchi' > 0 /\ keyCmd' = CMD_Config /\ ~LineArgs(uartCmd')[1].ok) =>
       /\ ~halted'
       /\ idxCurrentScale' = idxCurrentScale
       /\ CallsOf(calls', "DMM_SetScale") = {}
       /\ Cardinality(ResponseLines(uartOut')) = 1
       /\ \A i \in ResponseLines(uartOut') :
            /\ uartOut'[i].by = "DMMCMD_CmdConfig"
            /\ uartOut'[i].prefix \in {"ERROR", "FAIL"}
            /\ uartOut'[i].str = <<>>]_vars

RawAcquisitions(cs) ==
  { i \in 1..Len(cs) : /\ cs[i].by = "DMMCMD_CmdMeasureRaw"
                       /\ cs[i].fn \in {"DMM_DGetValue", "DMM_DGetAvgValue"} }

RawLines(out) == { i \in 1..Len(out) : out[i].by = "DMMCMD_CmdMeasureRaw" }

C34_NeverBlocked ==
  [][/\ fRepBlock = 0 /\ fRepBlock' = 0
     /\ ~halted' =>
          IF fRepGetVal' # 0 \/ fRepGetRaw' # 0
          THEN /\ Cardinality(RepAcquisitions(calls')) = 1
               /\ Cardinality(RepLines(uartOut')) = 1
          ELSE /\ RepAcquisitions(calls') = {}
               /\ RepLines(uartOut') = {}]_vars

(* C34 witness: the cycle that processed DMMMeasureRep, which set the      *)
(* flag, made the repeated-mode step itself.                               *)
C34_Witness ==
  /\ Decoded /\ keyCmd = CMD_MeasureRep
  /\ fRepBlock = 0
  /\ fRepGetVal # 0
  /\ Cardinality(RepAcquisitions(calls)) = 1
  /\ Len(uartOut) = 3 /\ RepLines(uartOut) = {3}

SaveCalls(cs) == CallsOf(cs, "CALIB_WriteAllCalibsToEPROM_User")

(* C35: a cycle that processes DMMSaveEPROM calls the save once; when the  *)
(* save returned the write-timeout code the cycle returns that code and    *)
(* sends its error line and no count; for every other returned value,      *)
(* those of the error-code range included, it returns success and sends    *)
(* one success line with the returned value as the count of calibrations   *)
(* written, and no error line.                                             *)
C35_OnlyTimeoutIsError ==
  (cchi > 0 /\ keyCmd = CMD_SaveEPROM) =>
    /\ Cardinality(SaveCalls(calls)) = 1
    /\ \A i \in SaveCalls(calls) :
         IF calls[i].err = ERRVAL_EPROM_WRTIMEOUT
         THEN /\ bErrCode = ERRVAL_EPROM_WRTIMEOUT
              /\ ErrorLineOf(uartOut, ERRVAL_EPROM_WRTIMEOUT)
              /\ SaveLines(uartOut) = {}
         ELSE /\ bErrCode = ERRVAL_SUCCESS
              /\ ErrorLines(uartOut) = {}
              /\ Cardinality(SaveLines(uartOut)) = 1
              /\ \A k \in SaveLines(uartOut) :
                   uartOut[k].prefix = "OK" /\ uartOut[k].num = calls[i].err

(* C35 witness: the save returned the checksum error code and the cycle    *)
(* reported 254 calibrations written, with success.                        *)
C35_Witness ==
  /\ Decoded /\ keyCmd = CMD_SaveEPROM /\ bErrCode = ERRVAL_SUCCESS
  /\ \E i \in SaveCalls(calls) : calls[i].err = ERRVAL_EPROM_CRC
  /\ \E k \in SaveLines(uartOut) :
       uartOut[k].prefix = "OK" /\ uartOut[k].num = ERRVAL_EPROM_CRC

=============================================================================
